---- MODULE Spec2Model ----
(***************************************************************************)
(* Model of the cue server's data management (ServerDataManagement and the *)
(* handlers of Server that drive it) and of its Communication object.      *)
(*                                                                         *)
(* Representation of pandas data:                                          *)
(*   - a text cell is a string; a missing cell is NaN;                     *)
(*   - a cue number or cue prefix is a sequence of one-character strings,  *)
(*     so that stripping digits and dots is computed; a missing cue        *)
(*     number is NaNCue;                                                   *)
(*   - a number that numpy may turn into nan (the pointer, the maximum     *)
(*     group) is an integer, NaNNum standing for nan;                      *)
(*   - a dataframe is a record of its column names (index included) and    *)
(*     the sequence of its rows.                                           *)
(***************************************************************************)
EXTENDS Integers, Sequences, FiniteSets, TLC

\* ------------------------------------------------------------------- state
VARIABLES
    attributes,     \* ServerDataManagement.attributes (Data/attributes.dat)
    states,         \* ServerDataManagement.states
    allCues,        \* ServerDataManagement.allCues: the cue sequence
    cueNum,         \* ServerDataManagement.cueNum: the persisted pointer
    cue_num_file,   \* what load gives from Data/cue_num.dat (0: no file)
    maxCueGroup,    \* ServerDataManagement.maxCueGroup
    currentCues,    \* ServerDataManagement.currentCues: the snapshot
    nodes,          \* ServerDataManagement.nodes: the node status table
    clock,          \* the last value pd.Timestamp.now() gave, in half minutes
    running,        \* FALSE once an exception left a Qt slot uncaught
    hist,           \* the last handler that ran, and how it ended
    sent_data_dict,     \* Communication.sent_data_dict
    received_data_dict, \* Communication.received_data_dict
    call,           \* the last call of a method of Communication
    tasks,          \* the coroutines gathered in Server.__tasks: where each is
    setup_tasks,    \* Server.__setup_tasks, the future of __setup_GUI
    tasks_exception,    \* the exception set on Server.__tasks ("" for none)
    errors,         \* ErrorStorage.__errors (errors.json)
    closed,         \* MainWindow.closed
    loop            \* where asyncio.run(cueServer.run_tasks()) is

dataVars == <<attributes, states, allCues, cueNum, cue_num_file, maxCueGroup,
              currentCues, nodes, clock, running, hist>>
commVars == <<sent_data_dict, received_data_dict, call>>
taskVars == <<tasks, setup_tasks, tasks_exception, errors, closed, loop>>
vars == <<attributes, states, allCues, cueNum, cue_num_file, maxCueGroup,
          currentCues, nodes, clock, running, hist, sent_data_dict,
          received_data_dict, call, tasks, setup_tasks, tasks_exception, errors, closed, loop>>

\* ------------------------------------------------------------------ bounds
\* Longest raw cue sheet the operator supplies (rows, blank rows included).
MaxRows == 3
\* Most node series in one poll of the node channel.
MaxReports == 2
\* Largest number the operator types after /goto cue.
MaxGoto == 3
\* Most records the daemon holds for a datatype.
MaxPaddedRows == 7
MaxRecords == 2

\* ------------------------------------------------------------- pandas data
NaN == "NaN"
NaNCue == <<"NaN">>
NaNNum == -1
NaT == -1

LastRowStorage ==
    <<"l","a","s","t","_","r","o","w","_","s","t","o","r","a","g","e">>

Digits == {"0","1","2","3","4","5","6","7","8","9"}

AttributesColumns == {"MAC Address", "Node Number", "Node Name", "Cue Prefix"}
StatesColumns == {"Cue State", "Initial Node State", "Final Node State"}
RawCuesColumns == {"Cue Number", "When", "Action", "Cue State"}
AllCuesColumns ==
    {"Cue Group Number", "Cue Number", "Cue Prefix", "When", "Action", "Cue State"}

\* __check_columns_names: the sorted column names (index included) must be
\* the sorted expected names.  TRUE when the check passes.
CheckColumnsNames(dataframe, column_names) == dataframe.columns = column_names

\* ---------------------------------------------------------------- compiler
\* potentialPrefix of __get_prefix: the cue number without digits and dots.
PotentialPrefix(cueNumber) ==
    LET keep(c) == c \notin Digits /\ c # "."
    IN  SelectSeq(cueNumber, keep)

\* The prefixes of the attributes sheet equal to the potential prefix.
MatchingPrefixes(cueNumber, attrs) ==
    LET same(r) == r.cuePrefix = PotentialPrefix(cueNumber)
    IN  SelectSeq(attrs.rows, same)

\* __get_prefix: the prefix, nan for the sentinel row, or a FormatCheckError.
GetPrefix(cueNumber, attrs) ==
    LET found == MatchingPrefixes(cueNumber, attrs)
    IN  IF Len(found) = 1 THEN [raised |-> FALSE, prefix |-> found[1].cuePrefix]
        ELSE IF cueNumber = LastRowStorage THEN [raised |-> FALSE, prefix |-> NaNCue]
        ELSE [raised |-> TRUE, prefix |-> NaNCue]

\* dataframe.loc['last_row_storage'] = nan: a new last row, unless the sheet
\* holds a cue of that number, whose cells are then emptied instead.
WithLastRow(rows) ==
    LET last_row == [cn |-> LastRowStorage, when |-> NaN, action |-> NaN, state |-> NaN]
    IN  IF \E i \in 1..Len(rows) : rows[i].cn = LastRowStorage
        THEN [i \in 1..Len(rows) |->
                IF rows[i].cn = LastRowStorage THEN last_row ELSE rows[i]]
        ELSE Append(rows, last_row)

\* dataframe.shift(): every column moves one row down, the index stays.
ShiftDown(rows) ==
    [i \in 1..Len(rows) |->
        IF i = 1
        THEN [cn |-> rows[i].cn, when |-> NaN, action |-> NaN, state |-> NaN]
        ELSE [cn |-> rows[i].cn, when |-> rows[i-1].when,
              action |-> rows[i-1].action, state |-> rows[i-1].state]]

\* A dropna(how='all') that drops nothing.
DropAllNaKeeping(rows) == rows

\* dataframe.dropna(how='all') after reset_index: the cue number is a column.
DropAllNa(rows) ==
    LET keep(r) == ~(r.cn = NaNCue /\ r.when = NaN /\ r.action = NaN /\ r.state = NaN)
    IN  SelectSeq(rows, keep)

\* The group column of the loop: one more at every missing cue number.
RECURSIVE GroupOf(_, _)
GroupOf(rows, i) ==
    IF i = 0 THEN 0
    ELSE GroupOf(rows, i - 1) + (IF rows[i].cn = NaNCue THEN 1 ELSE 0)

\* The prefix column of the loop, before it is cut: nan first, then one entry
\* per row.
PrefixColumn(rows, attrs) ==
    <<NaNCue>> \o
    [i \in 1..Len(rows) |->
        IF rows[i].cn = NaNCue THEN NaNCue ELSE GetPrefix(rows[i].cn, attrs).prefix]

\* The loop raises at the first cue number __get_prefix rejects.
PrefixRaises(rows, attrs) ==
    \E i \in 1..Len(rows) :
        rows[i].cn # NaNCue /\ GetPrefix(rows[i].cn, attrs).raised

\* The two new columns: the group column, and prefix_column[:-1].
WithGroupAndPrefix(rows, attrs) ==
    LET prefix_column == PrefixColumn(rows, attrs)
    IN  [i \in 1..Len(rows) |->
            [group |-> GroupOf(rows, i), cn |-> rows[i].cn,
             prefix |-> prefix_column[i], when |-> rows[i].when,
             action |-> rows[i].action, state |-> rows[i].state]]

\* dataframe.shift(-1) under the (group, cue number) index: the four columns
\* move one row up.
ShiftUp(rows) ==
    [i \in 1..Len(rows) |->
        IF i = Len(rows)
        THEN [group |-> rows[i].group, cn |-> rows[i].cn, prefix |-> NaNCue,
              when |-> NaN, action |-> NaN, state |-> NaN]
        ELSE [group |-> rows[i].group, cn |-> rows[i].cn,
              prefix |-> rows[i+1].prefix, when |-> rows[i+1].when,
              action |-> rows[i+1].action, state |-> rows[i+1].state]]

\* dataframe.dropna(): a row with any missing column goes.
DropAnyNa(rows) ==
    LET keep(r) == r.prefix # NaNCue /\ r.when # NaN /\ r.action # NaN /\ r.state # NaN
    IN  SelectSeq(rows, keep)

\* The unformatted branch of format_all_cues, from the sentinel row to the
\* last dropna.
GroupRawCues(rows, attrs) ==
    DropAnyNa(ShiftUp(WithGroupAndPrefix(DropAllNa(ShiftDown(WithLastRow(rows))), attrs)))

\* possible_cue_states: the index of the states sheet.
PossibleCueStates(sts) == {sts.rows[i].cueState : i \in 1..Len(sts.rows)}

\* A cue state check that looks at the first row only.
BadCueStateFirstRow(rows, sts) ==
    rows # <<>> /\ rows[1].state \notin PossibleCueStates(sts)

\* The cue state check of format_all_cues.
BadCueState(rows, sts) ==
    \E i \in 1..Len(rows) : rows[i].state \notin PossibleCueStates(sts)

\* The try block of format_all_cues: the error it raises ("" for none) and
\* the dataframe it would store.  For a formatted sheet set_index comes before
\* the check of the titles and raises KeyError when a column of the index is
\* missing.
CompileCues(dataframe, formatted, attrs, sts) ==
    IF ~formatted /\ ~CheckColumnsNames(dataframe, RawCuesColumns)
    THEN [error |-> "column titles", rows |-> <<>>]
    ELSE IF ~formatted /\ PrefixRaises(DropAllNa(ShiftDown(WithLastRow(dataframe.rows))), attrs)
    THEN [error |-> "cue prefix", rows |-> <<>>]
    ELSE IF formatted /\
            ~({"Cue Group Number", "Cue Number"} \subseteq dataframe.columns)
    THEN [error |-> "KeyError", rows |-> <<>>]
    ELSE LET rows == IF formatted THEN dataframe.rows
                     ELSE GroupRawCues(dataframe.rows, attrs)
         IN  IF formatted /\ ~CheckColumnsNames(dataframe, AllCuesColumns)
             THEN [error |-> "column titles", rows |-> <<>>]
             ELSE IF BadCueState(rows, sts)
             THEN [error |-> "cue states", rows |-> <<>>]
             ELSE [error |-> "", rows |-> rows]


\* ------------------------------------------------------------ the methods
\* The fields of ServerDataManagement, passed through its methods.
Data ==
    [attributes |-> attributes, states |-> states, allCues |-> allCues,
     cueNum |-> cueNum, maxCueGroup |-> maxCueGroup,
     currentCues |-> currentCues, nodes |-> nodes]

\* What a method leaves behind: the fields, the exception that left it ("" for
\* none, detail its first argument) and its return value.
Ok(d) == [d |-> d, raised |-> "", detail |-> "", ret |-> ""]
Raise(d, exception, detail) ==
    [d |-> d, raised |-> exception, detail |-> detail, ret |-> ""]

CurrentCuesColumns == {"Cue Prefix", "Cue Number", "When", "Action", "Cue State"}
NodesColumns ==
    {"Cue Number", "When", "Action", "Cue State", "Node Number", "Node State",
     "Timestamp"}

\* The group numbers of a cue sequence.
GroupNumbers(rows) == {rows[i].group : i \in 1..Len(rows)}

\* update_max_cue_group: the maximum of the group column, nan when it is empty.
MaxCueGroupOf(dataframe) ==
    IF dataframe.rows = <<>> THEN NaNNum
    ELSE CHOOSE g \in GroupNumbers(dataframe.rows) :
            \A h \in GroupNumbers(dataframe.rows) : h <= g

UpdateMaxCueGroup(d) == [d EXCEPT !.maxCueGroup = MaxCueGroupOf(d.allCues)]

\* allCues.loc[group] with the cue prefix as index: the rows of one group.
CuesOfGroup(dataframe, group) ==
    LET inGroup(r) == r.group = group
        picked == SelectSeq(dataframe.rows, inGroup)
    IN  [i \in 1..Len(picked) |->
            [prefix |-> picked[i].prefix, cn |-> picked[i].cn,
             when |-> picked[i].when, action |-> picked[i].action,
             state |-> picked[i].state]]

\* The rows reset_nodes builds from the snapshot: the cue columns, and the node
\* columns missing.
NodesShell(rows) ==
    [i \in 1..Len(rows) |->
        [cn |-> rows[i].cn, when |-> rows[i].when, action |-> rows[i].action,
         state |-> rows[i].state, nodeNumber |-> NaN, nodeState |-> NaN,
         timestamp |-> NaT, lastUpdated |-> NaN]]

\* reset_nodes
ResetNodes(d) ==
    [d EXCEPT !.nodes = [columns |-> NodesColumns,
                         rows |-> NodesShell(d.currentCues.rows)]]

\* format_current_cues: int(nan) raises ValueError, a group that is not in the
\* sequence raises KeyError, both before anything is stored.
FormatCurrentCues(d) ==
    IF d.cueNum = NaNNum THEN Raise(d, "ValueError", "")
    ELSE IF d.cueNum \notin GroupNumbers(d.allCues.rows) THEN Raise(d, "KeyError", "")
    ELSE Ok(ResetNodes([d EXCEPT !.currentCues =
                [columns |-> CurrentCuesColumns,
                 rows |-> CuesOfGroup(d.allCues, d.cueNum)]]))

\* A previous_cue that stays on the first group instead of wrapping.
PreviousCueNumNoWrap(num, maxGroup) ==
    IF num = 0 THEN 0
    ELSE IF num = NaNNum THEN NaNNum
    ELSE num - 1

\* A next_cue that runs past the last group instead of wrapping.
NextCueNumNoWrap(num, maxGroup) == num + 1

\* The pointer previous_cue stores (IntManager.update, __isub__).
PreviousCueNum(num, maxGroup) ==
    IF num = 0 THEN maxGroup
    ELSE IF num = NaNNum THEN NaNNum
    ELSE num - 1

\* The pointer next_cue stores (IntManager.update, __iadd__).
NextCueNum(num, maxGroup) ==
    IF maxGroup # NaNNum /\ num = maxGroup THEN 0 ELSE num + 1

\* previous_cue
PreviousCueM(d) ==
    FormatCurrentCues([d EXCEPT !.cueNum = PreviousCueNum(d.cueNum, d.maxCueGroup)])

\* next_cue: int(self.cueNum) raises first when the pointer is nan.
NextCueM(d) ==
    IF d.cueNum = NaNNum THEN Raise(d, "ValueError", "")
    ELSE FormatCurrentCues([d EXCEPT !.cueNum = NextCueNum(d.cueNum, d.maxCueGroup)])

\* The range test of warp_cue; a comparison with nan is False.
InRange(n, maxGroup) == n >= 0 /\ maxGroup # NaNNum /\ n <= maxGroup

\* A warp_cue that takes its argument as a distance from the current group.
WarpCueByOffset(d, n) ==
    IF InRange(n, d.maxCueGroup)
    THEN LET f == FormatCurrentCues(
                    [d EXCEPT !.cueNum = (d.cueNum + n) % (d.maxCueGroup + 1)])
         IN  IF f.raised = "" THEN [f EXCEPT !.ret = "True"] ELSE f
    ELSE [Ok(d) EXCEPT !.ret = "False"]

\* warp_cue
WarpCueM(d, n) ==
    IF InRange(n, d.maxCueGroup)
    THEN LET f == FormatCurrentCues([d EXCEPT !.cueNum = n])
         IN  IF f.raised = "" THEN [f EXCEPT !.ret = "True"] ELSE f
    ELSE [Ok(d) EXCEPT !.ret = "False"]

\* A format_attributes that rebuilds the node table once the sheet is stored.
FormatAttributesResetting(d, dataframe) ==
    IF ~CheckColumnsNames(dataframe, AttributesColumns)
    THEN Raise(d, "FormatError", "column titles")
    ELSE Ok(ResetNodes([d EXCEPT !.attributes = dataframe]))

\* format_attributes
FormatAttributesM(d, dataframe) ==
    IF ~CheckColumnsNames(dataframe, AttributesColumns)
    THEN Raise(d, "FormatError", "column titles")
    ELSE Ok([d EXCEPT !.attributes = dataframe])

\* format_states
FormatStatesM(d, dataframe) ==
    IF ~CheckColumnsNames(dataframe, StatesColumns)
    THEN Raise(d, "FormatError", "column titles")
    ELSE Ok([d EXCEPT !.states = dataframe])

\* A format_all_cues that empties the stored sequence before it raises.
FormatAllCuesClearing(d, dataframe, formatted) ==
    LET c == CompileCues(dataframe, formatted, d.attributes, d.states)
    IN  IF c.error = "KeyError" THEN Raise(d, "KeyError", "")
        ELSE IF c.error # ""
        THEN Raise([d EXCEPT !.allCues = [columns |-> AllCuesColumns, rows |-> <<>>]],
                   "FormatError", c.error)
        ELSE LET w == WarpCueM(UpdateMaxCueGroup(
                        [d EXCEPT !.allCues = [columns |-> AllCuesColumns,
                                               rows |-> c.rows]]), 0)
             IN  [w EXCEPT !.ret = ""]

\* A format_all_cues that stores the sheet it was given before it raises.
FormatAllCuesStoring(d, dataframe, formatted) ==
    LET c == CompileCues(dataframe, formatted, d.attributes, d.states)
    IN  IF c.error = "KeyError" THEN Raise(d, "KeyError", "")
        ELSE IF c.error # ""
        THEN Raise([d EXCEPT !.allCues = dataframe], "FormatError", c.error)
        ELSE LET w == WarpCueM(UpdateMaxCueGroup(
                        [d EXCEPT !.allCues = [columns |-> AllCuesColumns,
                                               rows |-> c.rows]]), 0)
             IN  [w EXCEPT !.ret = ""]

\* format_all_cues: a FormatCheckError becomes a FormatError, any other
\* exception leaves the method as it is, and nothing is stored; else the
\* sequence is stored, the maximum updated and the pointer warped to 0 (the
\* value warp_cue returns is dropped).
FormatAllCuesM(d, dataframe, formatted) ==
    LET c == CompileCues(dataframe, formatted, d.attributes, d.states)
    IN  IF c.error = "KeyError" THEN Raise(d, "KeyError", "")
        ELSE IF c.error # "" THEN Raise(d, "FormatError", c.error)
        ELSE LET w == WarpCueM(UpdateMaxCueGroup(
                        [d EXCEPT !.allCues = [columns |-> AllCuesColumns,
                                               rows |-> c.rows]]), 0)
             IN  [w EXCEPT !.ret = ""]


\* ------------------------------------------------------------ node status
\* round(seconds / 60) of format_timestamp, on a difference in half minutes:
\* Python rounds a half to the even neighbour.
RoundMinutes(halfMinutes) ==
    LET q == halfMinutes \div 2
    IN  IF halfMinutes % 2 = 0 THEN q
        ELSE IF q % 2 = 0 THEN q ELSE q + 1

\* A format_timestamp whose limit is a strict one.
FormatTimestampStrict(timestamp, now) ==
    IF timestamp # NaT
    THEN LET totalMin == RoundMinutes(now - timestamp)
         IN  IF totalMin < 99 THEN ToString(totalMin) \o " min" ELSE ">99 min"
    ELSE NaN

\* format_timestamp
FormatTimestamp(timestamp, now) ==
    IF timestamp # NaT
    THEN LET totalMin == RoundMinutes(now - timestamp)
         IN  IF totalMin <= 99 THEN ToString(totalMin) \o " min" ELSE ">99 min"
    ELSE NaN

\* An update_last_updated that also stamps the rows it formats.
UpdateLastUpdatedStamping(d, now) ==
    [d EXCEPT !.nodes =
        [columns |-> d.nodes.columns \cup {"Last Updated"},
         rows |-> [i \in 1..Len(d.nodes.rows) |->
                    [d.nodes.rows[i] EXCEPT
                        !.lastUpdated = FormatTimestamp(d.nodes.rows[i].timestamp, now),
                        !.timestamp = IF d.nodes.rows[i].timestamp = NaT THEN NaT
                                      ELSE now]]]]

\* update_last_updated
UpdateLastUpdated(d, now) ==
    [d EXCEPT !.nodes =
        [columns |-> d.nodes.columns \cup {"Last Updated"},
         rows |-> [i \in 1..Len(d.nodes.rows) |->
                    [d.nodes.rows[i] EXCEPT
                        !.lastUpdated = FormatTimestamp(d.nodes.rows[i].timestamp, now)]]]]

\* An assignment that leaves the row's timestamp as it was.
AssignSeriesWithoutTimestamp(rows, series) ==
    [i \in 1..Len(rows) |->
        IF rows[i].cn = series.cn
        THEN [cn |-> rows[i].cn, when |-> series.when, action |-> series.action,
              state |-> series.state, nodeNumber |-> series.nodeNumber,
              nodeState |-> series.nodeState, timestamp |-> rows[i].timestamp,
              lastUpdated |-> NaN]
        ELSE rows[i]]

\* nodesFrame.loc[cueNum] = series: every row of that cue number takes the
\* series' value in each column of the frame (nan where the series has none).
AssignSeries(rows, series) ==
    [i \in 1..Len(rows) |->
        IF rows[i].cn = series.cn
        THEN [cn |-> rows[i].cn, when |-> series.when, action |-> series.action,
              state |-> series.state, nodeNumber |-> series.nodeNumber,
              nodeState |-> series.nodeState, timestamp |-> series.timestamp,
              lastUpdated |-> NaN]
        ELSE rows[i]]

\* Whether format_nodes takes a series: its cue number is in the frame's index.
InNodesIndex(rows, cueNumber) == \E i \in 1..Len(rows) : rows[i].cn = cueNumber

\* A format_nodes loop without the test on the index: nodesFrame.loc[cueNum]
\* = series then adds a row for a cue number the frame does not hold.
RECURSIVE ApplySeriesUnguarded(_, _, _)
ApplySeriesUnguarded(rows, node_series_list, k) ==
    IF k = 0 THEN rows
    ELSE LET before == ApplySeriesUnguarded(rows, node_series_list, k - 1)
             series == node_series_list[k]
         IN  IF InNodesIndex(before, series.cn)
             THEN AssignSeries(before, series)
             ELSE Append(before,
                    [cn |-> series.cn, when |-> series.when, action |-> series.action,
                     state |-> series.state, nodeNumber |-> series.nodeNumber,
                     nodeState |-> series.nodeState, timestamp |-> series.timestamp,
                     lastUpdated |-> NaN])

\* The loop of format_nodes over the first k series of the list.
RECURSIVE ApplySeries(_, _, _)
ApplySeries(rows, node_series_list, k) ==
    IF k = 0 THEN rows
    ELSE LET before == ApplySeries(rows, node_series_list, k - 1)
         IN  IF InNodesIndex(before, node_series_list[k].cn)
             THEN AssignSeries(before, node_series_list[k])
             ELSE before

\* A format_nodes that rebuilds the table from the list: every row goes back
\* to its cue fields before the series of the list are taken.
FormatNodesRebuilding(d, node_series_list, now) ==
    UpdateLastUpdated(
        [d EXCEPT !.nodes.rows =
            ApplySeries(NodesShell(d.nodes.rows), node_series_list,
                        Len(node_series_list))],
        now)

\* format_nodes (the list is never None here: the poll calls it with a list).
FormatNodesM(d, node_series_list, now) ==
    UpdateLastUpdated(
        [d EXCEPT !.nodes.rows =
            ApplySeries(d.nodes.rows, node_series_list, Len(node_series_list))],
        now)

\* ------------------------------------------------------------ whole shows
\* format_data with nodes='reset': the three sheets in turn, the first
\* exception ending it, then reset_nodes.
FormatDataM(d, attrs, sts, all_cues, allCuesFormatted) ==
    LET a == FormatAttributesM(d, attrs)
        s == FormatStatesM(a.d, sts)
        c == FormatAllCuesM(s.d, all_cues, allCuesFormatted)
    IN  IF a.raised # "" THEN a
        ELSE IF s.raised # "" THEN s
        ELSE IF c.raised # "" THEN c
        ELSE Ok(ResetNodes(c.d))

\* The files of a show folder.
ShowFiles == {"attributes", "states", "all_cues"}

\* An open_show that reads and formats one file after the other.
OpenShowInTurn(d, found, attrs, sts, all_cues, formatted, exceptionMessage) ==
    IF found = ShowFiles THEN FormatDataM(d, attrs, sts, all_cues, formatted)
    ELSE IF "attributes" \notin found
    THEN Raise(d, "InvalidCommandInput", exceptionMessage)
    ELSE LET a == FormatAttributesM(d, attrs)
         IN  IF a.raised # "" THEN a
             ELSE Raise(a.d, "InvalidCommandInput", exceptionMessage)

\* open_show of a folder that holds the files found: saved_open reads the
\* three files before format_data is called, and the FileNotFoundError of a
\* missing one becomes InvalidCommandInput.
OpenShowM(d, found, attrs, sts, all_cues, formatted, exceptionMessage) ==
    IF found # ShowFiles THEN Raise(d, "InvalidCommandInput", exceptionMessage)
    ELSE FormatDataM(d, attrs, sts, all_cues, formatted)

\* ------------------------------------------------------------ communication
\* A byte is a string: a printable byte is its one character, any other byte
\* the two hexadecimal digits of its value.  A value sent is a text (the
\* content of a cell, as it stands in the pickle of a frame or a series): a
\* sequence of printable bytes.
Backslash == "\\"
Quote == "\""
HexDigits ==
    {"0", "1", "2", "3", "4", "5", "6", "7", "8", "9",
     "a", "b", "c", "d", "e", "f"}

\* The bytes that are not printable, each with its two digits.
HexTable ==
    {<<"00", "0", "0">>, <<"01", "0", "1">>, <<"02", "0", "2">>,
     <<"03", "0", "3">>, <<"04", "0", "4">>, <<"07", "0", "7">>,
     <<"08", "0", "8">>, <<"09", "0", "9">>, <<"0a", "0", "a">>,
     <<"0b", "0", "b">>, <<"0c", "0", "c">>, <<"0d", "0", "d">>,
     <<"80", "8", "0">>, <<"8c", "8", "c">>, <<"94", "9", "4">>}
Unprintable == {t[1] : t \in HexTable}
DigitsOf(byte) ==
    LET t == CHOOSE t \in HexTable : t[1] = byte IN <<t[2], t[3]>>
ByteOfDigits(h1, h2) ==
    IF \E t \in HexTable : t[2] = h1 /\ t[3] = h2
    THEN (CHOOSE t \in HexTable : t[2] = h1 /\ t[3] = h2)[1]
    ELSE h1 \o h2
Whitespace == {" ", "09", "0a", "0b", "0c", "0d"}

\* pickle.dump of a text in the default protocol: PROTO 4, SHORT_BINUNICODE,
\* the length, the text, MEMOIZE, STOP (the frame header of the longer
\* pickles, eight length bytes that are not printable, is left out).
LengthBytes == <<"00", "01", "02", "03", "04">>
Dumps(text) ==
    <<"80", "04", "8c", LengthBytes[Len(text) + 1]>> \o text \o <<"94", ".">>

\* __message_encode: the bytes written to Sent/{datatype}_data.dat.
MessageEncode(data) == Dumps(data)

\* What `alfred -r` prints for the records it holds: for each one the
\* sender's address and the data, quotes and backslashes of the data behind a
\* backslash and the bytes that are not printable as \xhh.
MacAddress == <<"f", "e", ":", "0", "1">>
AlfredEscape(byte) ==
    IF byte = Quote THEN <<Backslash, Quote>>
    ELSE IF byte = Backslash THEN <<Backslash, Backslash>>
    ELSE IF byte \in Unprintable THEN <<Backslash, "x">> \o DigitsOf(byte)
    ELSE <<byte>>

\* The bytes of the pieces, one piece after the other (a piece is at most
\* four bytes long).
Absent == ""
Joined(pieces) ==
    LET all == pieces
        expanded ==
            [k \in 1..(4 * Len(all)) |->
                LET piece == all[(k - 1) \div 4 + 1]
                    j == ((k - 1) % 4) + 1
                IN  IF j <= Len(piece) THEN piece[j] ELSE Absent]
    IN  SelectSeq(expanded, LAMBDA byte : byte # Absent)

AlfredEscaped(data) ==
    LET bytes == data
    IN  Joined([i \in 1..Len(bytes) |-> AlfredEscape(bytes[i])])

AlfredRecord(data) ==
    <<"{", " ", Quote>> \o MacAddress \o <<Quote, ",", " ", Quote>>
        \o AlfredEscaped(data) \o <<Quote, " ", "}", ",", "0a">>

RECURSIVE AlfredOutput(_)
AlfredOutput(records) ==
    IF records = <<>> THEN <<>>
    ELSE AlfredRecord(Head(records)) \o AlfredOutput(Tail(records))

\* codecs.escape_decode(data, 'hex'): the escapes of a Python bytes literal
\* are replaced (an octal escape, a backslash before a digit, is not among
\* the bytes read here).  A backslash that ends the data, or \x without two
\* digits behind it, is a ValueError ('hex' names no way of going on).  A
\* backslash before any other byte stays with that byte.
SimpleEscapes ==
    {<<Backslash, Backslash>>, <<Quote, Quote>>, <<"'", "'">>,
     <<"n", "0a">>, <<"t", "09">>, <<"r", "0d">>, <<"a", "07">>,
     <<"b", "08">>, <<"f", "0c">>, <<"v", "0b">>}

\* The number of backslashes that stand in a row just before place i.
BackslashesBefore(data, i) ==
    LET others == {j \in 1..(i - 1) : data[j] # Backslash}
        last == IF others = {} THEN 0
                ELSE CHOOSE j \in others : \A l \in others : l <= j
    IN  i - 1 - last

\* What the byte behind a backslash that opens an escape adds to the decoded
\* bytes (\x aside).
EscapeValue(byte) ==
    IF \E e \in SimpleEscapes : e[1] = byte
    THEN <<(CHOOSE e \in SimpleEscapes : e[1] = byte)[2]>>
    ELSE IF byte = "0a" THEN <<>>
    ELSE <<Backslash, byte>>

\* A backslash opens an escape when the backslashes before it pair up; the
\* byte behind it is escaped; \x takes the two bytes behind it.
EscapeDecode(data) ==
    LET bytes == data
        n == Len(bytes)
        opens == [i \in 0..n |->
                    /\ i >= 1
                    /\ bytes[i] = Backslash
                    /\ BackslashesBefore(bytes, i) % 2 = 0]
        hex == [i \in -1..n |-> i > 1 /\ opens[i - 1] /\ bytes[i] = "x"]
        fails == [i \in 1..n |->
                    /\ hex[i]
                    /\ ~ /\ i + 2 <= n
                          /\ bytes[i + 1] \in HexDigits
                          /\ bytes[i + 2] \in HexDigits]
        piece == [i \in 1..n |->
                    IF opens[i] \/ hex[i - 1] \/ hex[i - 2] THEN <<>>
                    ELSE IF ~opens[i - 1] THEN <<bytes[i]>>
                    ELSE IF hex[i]
                    THEN <<ByteOfDigits(bytes[i + 1], bytes[i + 2])>>
                    ELSE EscapeValue(bytes[i])]
    IN  IF opens[n] \/ \E i \in 1..n : fails[i]
        THEN [error |-> TRUE, bytes |-> <<>>]
        ELSE [error |-> FALSE, bytes |-> Joined(piece)]

\* data.split(b'",'): the elements between the places where a quote stands
\* before a comma.
Split(data) ==
    LET bytes == data
        cuts == {i \in 1..(Len(bytes) - 1) :
                    bytes[i] = Quote /\ bytes[i + 1] = ","}
        Cut(k) == IF k = 0 THEN -1
                  ELSE IF k > Cardinality(cuts) THEN Len(bytes) + 1
                  ELSE CHOOSE i \in cuts : Cardinality({j \in cuts : j < i}) = k - 1
    IN  [k \in 1..(Cardinality(cuts) + 1) |->
            SubSeq(bytes, Cut(k - 1) + 2, Cut(k) - 1)]

\* element.strip().lstrip(b'"')
LStrip(element, bytes) ==
    LET kept == {i \in 1..Len(element) : element[i] \notin bytes}
    IN  IF kept = {} THEN <<>>
        ELSE SubSeq(element, CHOOSE i \in kept : \A j \in kept : i <= j,
                    Len(element))

RStrip(element, bytes) ==
    LET kept == {i \in 1..Len(element) : element[i] \notin bytes}
    IN  IF kept = {} THEN <<>>
        ELSE SubSeq(element, 1, CHOOSE i \in kept : \A j \in kept : j <= i)

Strip(element) == LStrip(RStrip(LStrip(element, Whitespace), Whitespace), {Quote})

\* pickle.loads of bytes that came from Dumps, whole or in part, followed by
\* anything: the exception it raises ("" when none) and the text it returns.
\* The bytes after STOP are not read.
RECURSIVE LoadsRest(_, _, _)
LoadsRest(element, i, text) ==
    IF i > Len(element) THEN [raised |-> "EOFError", value |-> <<>>]
    ELSE IF element[i] = "94" THEN LoadsRest(element, i + 1, text)
    ELSE IF element[i] = "." THEN [raised |-> "", value |-> text]
    ELSE [raised |-> "UnpicklingError", value |-> <<>>]

Loads(element) ==
    LET n == Len(element)
        Raises(exception) == [raised |-> exception, value |-> <<>>]
        length == (CHOOSE k \in 1..Len(LengthBytes) :
                      LengthBytes[k] = element[4]) - 1
        text == SubSeq(element, 5, 4 + length)
    IN  IF n = 0 THEN Raises("EOFError")
        ELSE IF element[1] # "80" THEN Raises("UnpicklingError")
        ELSE IF n = 1 THEN Raises("UnpicklingError")
        ELSE IF n = 2 THEN Raises("EOFError")
        ELSE IF element[3] # "8c" THEN Raises("UnpicklingError")
        ELSE IF n = 3 \/ element[4] \notin {LengthBytes[k] : k \in 1..Len(LengthBytes)}
        THEN Raises("UnpicklingError")
        ELSE IF n < 4 + length THEN Raises("UnpicklingError")
        ELSE IF \E k \in 1..length : text[k] \in {"80", "8c", "94"}
        THEN Raises("UnicodeDecodeError")
        ELSE LoadsRest(element, 5 + length, text)

\* The list comprehension of __data_decode: loads of each element in turn,
\* ended by the first exception.
RECURSIVE LoadsAll(_)
LoadsAll(elements) ==
    IF elements = <<>> THEN [raised |-> "", data |-> <<>>]
    ELSE LET first == Loads(Head(elements))
             rest == LoadsAll(Tail(elements))
         IN  IF first.raised # "" THEN [raised |-> first.raised, data |-> <<>>]
             ELSE IF rest.raised # "" THEN rest
             ELSE [raised |-> "", data |-> <<first.value>> \o rest.data]

\* __data_decode: the exception that leaves it ("" when none) and the list it
\* returns.  An UnpicklingError empties the list; any other exception of loads
\* reaches the finally clause with decodedObjects unbound, and the return
\* statement there raises UnboundLocalError in its place.
DataDecode(data) ==
    LET once == EscapeDecode(data)
        twice == EscapeDecode(once.bytes)
        elements == SelectSeq(Split(twice.bytes),
                              LAMBDA element :
                                  \E k \in 1..Len(element) : element[k] = ".")
        stripped == [k \in 1..Len(elements) |-> Strip(elements[k])]
        loaded == LoadsAll(stripped)
    IN  IF once.error \/ twice.error THEN [raised |-> "ValueError", data |-> <<>>]
        ELSE IF loaded.raised = "" THEN loaded
        ELSE IF loaded.raised = "UnpicklingError" THEN [raised |-> "", data |-> <<>>]
        ELSE [raised |-> "UnboundLocalError", data |-> <<>>]

\* A receive_data that hands out the list whatever singular says.
ReturnedList(data, singular) ==
    IF data = <<>> THEN [kind |-> "None", value |-> <<>>]
    ELSE [kind |-> "list", value |-> data]

\* What receive_data returns for the decoded list: None, the one object, or
\* the list.
Returned(data, singular) ==
    IF data = <<>> THEN [kind |-> "None", value |-> <<>>]
    ELSE IF Len(data) = 1 /\ singular THEN [kind |-> "object", value |-> data[1]]
    ELSE [kind |-> "list", value |-> data]

\* ----------------------------------------------------------------- inputs
CueA1 == <<"A", "1">>
CueA2 == <<"A", "2">>
CueB1 == <<"B", "1">>
CueB2 == <<"B", "2">>

AttributeRow(mac, number, name, prefix) ==
    [mac |-> mac, nodeNumber |-> number, nodeName |-> name, cuePrefix |-> prefix]
StateRow(cueState, initial, final) ==
    [cueState |-> cueState, initial |-> initial, final |-> final]
CueRow(group, cn, prefix, state) ==
    [group |-> group, cn |-> cn, prefix |-> prefix, when |-> "w", action |-> "a",
     state |-> state]

\* The templates the three user sheets start from and /reset returns to
\* (Templates/*.csv; the all cues template is stored grouped).
TemplateAttributes ==
    [columns |-> AttributesColumns,
     rows |-> <<AttributeRow("m1", "1", "n1", <<"A">>),
                AttributeRow("m2", "2", "n2", <<"B">>)>>]
TemplateStates ==
    [columns |-> StatesColumns,
     rows |-> <<StateRow("Standby", "Idle", "Ready"), StateRow("Go", "Ready", "Done")>>]
TemplateAllCues ==
    [columns |-> AllCuesColumns,
     rows |-> <<CueRow(0, CueA1, <<"A">>, "Standby"), CueRow(0, CueB1, <<"B">>, "Go"),
                CueRow(1, CueA2, <<"A">>, "Go"), CueRow(2, CueB2, <<"B">>, "Standby")>>]

\* Attribute sheets the operator supplies: the template, one whose prefix
\* column has another title, and one in which two nodes share the prefix A.
AttributeSheets ==
    {TemplateAttributes,
     [columns |-> {"MAC Address", "Node Number", "Node Name", "Prefix"},
      rows |-> TemplateAttributes.rows],
     [columns |-> AttributesColumns,
      rows |-> <<AttributeRow("m1", "1", "n1", <<"A">>),
                 AttributeRow("m3", "3", "n3", <<"A">>),
                 AttributeRow("m2", "2", "n2", <<"B">>)>>]}

\* State sheets the operator supplies: the template, and one without Standby.
StateSheets ==
    {TemplateStates,
     [columns |-> StatesColumns, rows |-> <<StateRow("Go", "Ready", "Done")>>]}

\* Rows of a raw cue sheet: a blank row, two cues, a cue whose When cell is
\* empty, and a cue the operator numbered last_row_storage.
BlankRow == [cn |-> NaNCue, when |-> NaN, action |-> NaN, state |-> NaN]
RawCue(cn, state) == [cn |-> cn, when |-> "w", action |-> "a", state |-> state]
PartialCue(cn, state) == [cn |-> cn, when |-> NaN, action |-> "a", state |-> state]

RawRows ==
    {BlankRow, RawCue(CueA1, "Standby"), RawCue(CueB1, "Go"),
     PartialCue(CueA2, "Standby"), RawCue(LastRowStorage, "Go")}

\* A raw cue sheet whose cue state column has another title.
MistitledCueSheet ==
    [columns |-> {"Cue Number", "When", "Action", "State"},
     rows |-> <<RawCue(CueA1, "Standby")>>]

\* Raw cue sheets of at most MaxRows rows, no cue number written twice, and
\* the sheet with the wrong title.
RawCueSheets ==
    {[columns |-> RawCuesColumns, rows |-> r] :
        r \in {q \in UNION {[1..n -> RawRows] : n \in 0..MaxRows} :
                \A i, j \in 1..Len(q) : (i # j /\ q[i].cn = q[j].cn) => q[i].cn = NaNCue}}
    \cup {MistitledCueSheet}

\* Whether a sheet holds a row with a cue number whose letters are the prefix
\* of no row, or of several rows, of the attributes sheet.
HasUnresolvedPrefix(dataframe, attrs) ==
    \E i \in 1..Len(dataframe.rows) :
        /\ dataframe.rows[i].cn # NaNCue
        /\ Len(MatchingPrefixes(dataframe.rows[i].cn, attrs)) # 1

\* Whether a sheet holds a cue row whose cue state is written and is no cue
\* state of the states sheet.
HasUnknownState(dataframe, sts) ==
    \E i \in 1..Len(dataframe.rows) :
        /\ dataframe.rows[i].cn # NaNCue
        /\ dataframe.rows[i].state # NaN
        /\ dataframe.rows[i].state \notin PossibleCueStates(sts)

\* What tells two raw sheets apart under the given sheets: what
\* format_all_cues makes of them, and whether they hold an unresolved prefix
\* or an unknown cue state.
SheetTraits(sheet, attrs, sts) ==
    [compiled |-> CompileCues(sheet, FALSE, attrs, sts),
     prefix |-> HasUnresolvedPrefix(sheet, attrs),
     state |-> HasUnknownState(sheet, sts)]

CompiledFrom(attrs, sts) ==
    {SheetTraits(sheet, attrs, sts) : sheet \in RawCueSheets}

\* One raw sheet for each combination of traits: two raw sheets of the same
\* traits lead to the same state, so the operator's sheet is drawn from these.
DistinctRawSheets ==
    {[attributes |-> a, states |-> s,
      sheets |-> {CHOOSE sheet \in RawCueSheets :
                    SheetTraits(sheet, a, s) = c : c \in CompiledFrom(a, s)}] :
        a \in AttributeSheets, s \in StateSheets}

RawSheetsFor(attrs, sts) ==
    (CHOOSE e \in DistinctRawSheets : e.attributes = attrs /\ e.states = sts).sheets

\* The raw cue sheets of the example show folders: one group of two cues, two
\* groups, a sheet with no row, a sheet whose first group holds only a cue
\* with an empty When cell, and the sheet with the wrong title.
ExampleCueSheets ==
    {[columns |-> RawCuesColumns, rows |-> r] :
        r \in {<<RawCue(CueA1, "Standby"), RawCue(CueB1, "Go")>>,
               <<RawCue(CueA1, "Standby"), BlankRow, RawCue(CueB1, "Go")>>,
               <<>>,
               <<PartialCue(CueA2, "Go"), BlankRow, RawCue(CueB1, "Go")>>}}
    \cup {MistitledCueSheet}

\* The cue sheets of the saved show folders, as save_show wrote them: the
\* template, a sequence of two groups, a sequence with no cue, and a sequence
\* whose only group is group 1; and a raw sheet put there by hand.
SavedCueSheets ==
    {[columns |-> AllCuesColumns, rows |-> r] :
        r \in {TemplateAllCues.rows,
               <<CueRow(0, CueA1, <<"A">>, "Standby"), CueRow(1, CueB1, <<"B">>, "Go")>>,
               <<>>,
               <<CueRow(1, CueB1, <<"B">>, "Go")>>}}
    \cup {[columns |-> RawCuesColumns, rows |-> <<RawCue(CueA1, "Standby")>>]}

\* The node series a poll can decode: one for each of two cues, and a second
\* one, from another node, for the first of them, which that node made of a
\* cue sheet in which the cue had another cue state.
NodeSeries ==
    {[cn |-> CueA1, when |-> "w", action |-> "a", state |-> "Standby",
      nodeNumber |-> "1", nodeState |-> "Ready", timestamp |-> 0],
     [cn |-> CueA1, when |-> "w", action |-> "a", state |-> "Go",
      nodeNumber |-> "3", nodeState |-> "Busy", timestamp |-> 0],
     [cn |-> CueB1, when |-> "w", action |-> "a", state |-> "Go",
      nodeNumber |-> "2", nodeState |-> "Ready", timestamp |-> 0]}

\* The daemon holds one record for each node: no series is twice in a list.
NodeSeriesLists ==
    {list \in UNION {[1..n -> NodeSeries] : n \in 1..MaxReports} :
        \A k, l \in 1..Len(list) : list[k] = list[l] => k = l}

\* The values pd.Timestamp.now() takes, in half minutes.
NowValues == {0, 10}


\* ------------------------------------------------------------- operations
Store(d) ==
    /\ attributes' = d.attributes
    /\ states' = d.states
    /\ allCues' = d.allCues
    /\ cueNum' = d.cueNum
    /\ cue_num_file' = d.cueNum
    /\ maxCueGroup' = d.maxCueGroup
    /\ currentCues' = d.currentCues
    /\ nodes' = d.nodes

\* How a handler ended: the exception that left the method, else the value it
\* returned, else "ok".
Outcome(r) ==
    IF r.raised # "" THEN r.raised ELSE IF r.ret # "" THEN r.ret ELSE "ok"

\* The record of a handler: its name, its argument, how it ended, and, for
\* the two buttons, how many times in a row the button has now been pressed
\* (counted up to one full turn of the groups) and the pointer the row of
\* presses started from.  For /goto cue the streak is 2 when the command
\* before it was /goto cue with the same number, else 1.  A handler that was
\* given a cue sheet records the sheet, and format_nodes records the list it
\* was given.
NoSheet == [columns |-> {}, rows |-> <<>>]

Record(op, arg, r) ==
    [op |-> op, arg |-> arg, res |-> Outcome(r), detail |-> r.detail,
     streak |-> 0, start |-> 0, sheet |-> NoSheet,
     list |-> <<>>]

Press(op, r) ==
    LET more == /\ hist.op = op
                /\ hist.res = "ok"
                /\ maxCueGroup # NaNNum
                /\ hist.streak < maxCueGroup + 1
    IN  [op |-> op, arg |-> 0, res |-> Outcome(r), detail |-> r.detail,
         streak |-> IF more THEN hist.streak + 1 ELSE 1,
         start |-> IF more THEN hist.start ELSE cueNum, sheet |-> NoSheet,
     list |-> <<>>]

\* Communication.__init__: both dictionaries are empty.
NoCall ==
    [op |-> "init", datatype |-> 0, singular |-> FALSE, published |-> <<>>,
     raised |-> "", returned |-> [kind |-> "None", value |-> <<>>]]

CommInit ==
    /\ sent_data_dict = <<>>
    /\ received_data_dict = <<>>
    /\ call = NoCall

\* The coroutines Server.run_tasks gathers in __tasks, but for __setup_GUI:
\* the six that await __setup_tasks before their loop, and the heartbeat,
\* which does not.
BarrierTasks ==
    {"send_attributes", "send_states", "send_current_cues", "get_node_series",
     "run_GUI", "update_node_times"}
TaskNames == BarrierTasks \cup {"uptodate_update"}

\* Server.run_tasks has made both gathers and awaits __tasks: every task is
\* scheduled ("ready") and none has run; the error log holds what errors.json
\* held.  A task is "waiting" while suspended at await self.__setup_tasks,
\* "sleeping" in the asyncio.sleep that ends an iteration of its loop,
\* "raised" once an exception left it and "cancelled" once cancelled.
TaskInit(stored) ==
    /\ tasks = [t \in TaskNames |-> "ready"]
    /\ setup_tasks = "ready"
    /\ tasks_exception = ""
    /\ errors = stored
    /\ closed = FALSE
    /\ loop = "awaiting"

\* The state after ServerDataManagement.__init__ on a first run: the three
\* sheets are their templates, the pointer file is missing (0), and the
\* snapshot and the node table are formatted for group 0.
InitData ==
    FormatCurrentCues(UpdateMaxCueGroup(
        [attributes |-> TemplateAttributes, states |-> TemplateStates,
         allCues |-> TemplateAllCues, cueNum |-> 0, maxCueGroup |-> NaNNum,
         currentCues |-> [columns |-> {}, rows |-> <<>>],
         nodes |-> [columns |-> {}, rows |-> <<>>]])).d

Init ==
    /\ attributes = InitData.attributes
    /\ states = InitData.states
    /\ allCues = InitData.allCues
    /\ cueNum = InitData.cueNum
    /\ cue_num_file = InitData.cueNum
    /\ maxCueGroup = InitData.maxCueGroup
    /\ currentCues = InitData.currentCues
    /\ nodes = InitData.nodes
    /\ clock = 0
    /\ running = TRUE
    /\ hist = [op |-> "init", arg |-> 0, res |-> "ok", detail |-> "",
               streak |-> 0, start |-> 0, sheet |-> NoSheet, list |-> <<>>]
    /\ CommInit
    /\ TaskInit(<<>>)

\* Server.__previous_cue, a Qt slot: an exception of previous_cue leaves the
\* slot uncaught and PyQt5 aborts the process.
PreviousCue ==
    /\ running
    /\ LET r == PreviousCueM(Data)
       IN  /\ Store(r.d)
           /\ running' = (r.raised = "")
           /\ hist' = Press("previous_cue", r)
    /\ UNCHANGED clock
    /\ UNCHANGED commVars
    /\ UNCHANGED taskVars

\* Server.__next_cue, a Qt slot.
NextCue ==
    /\ running
    /\ LET r == NextCueM(Data)
       IN  /\ Store(r.d)
           /\ running' = (r.raised = "")
           /\ hist' = Press("next_cue", r)
    /\ UNCHANGED clock
    /\ UNCHANGED commVars
    /\ UNCHANGED taskVars

\* Server.__command_line_input on "/goto cue n": a False from warp_cue
\* becomes an InvalidCommandInput, and every exception is caught there.
GotoCue(n) ==
    /\ running
    /\ LET r == WarpCueM(Data, n)
       IN  /\ Store(r.d)
           /\ hist' = [Record("warp_cue", n, r) EXCEPT
                        !.streak = IF hist.op = "warp_cue" /\ hist.arg = n
                                   THEN 2 ELSE 1]
    /\ UNCHANGED <<clock, running>>
    /\ UNCHANGED commVars
    /\ UNCHANGED taskVars

\* Server.__update_dataframe for the All Cues tab, a Qt slot: FormatWarning
\* and FormatError are caught, any other exception is not.
UpdateAllCues(dataframe) ==
    /\ running
    /\ LET r == FormatAllCuesM(Data, dataframe, FALSE)
       IN  /\ Store(r.d)
           /\ running' = (r.raised \in {"", "FormatError"})
           /\ hist' = [Record("format_all_cues", 0, r) EXCEPT !.sheet = dataframe]
    /\ UNCHANGED clock
    /\ UNCHANGED commVars
    /\ UNCHANGED taskVars

\* Server.__update_dataframe for the Attributes tab.
UpdateAttributes(dataframe) ==
    /\ running
    /\ LET r == FormatAttributesM(Data, dataframe)
       IN  /\ Store(r.d)
           /\ hist' = Record("format_attributes", 0, r)
    /\ UNCHANGED <<clock, running>>
    /\ UNCHANGED commVars
    /\ UNCHANGED taskVars

\* Server.__update_dataframe for the States tab.
UpdateStates(dataframe) ==
    /\ running
    /\ LET r == FormatStatesM(Data, dataframe)
       IN  /\ Store(r.d)
           /\ hist' = Record("format_states", 0, r)
    /\ UNCHANGED <<clock, running>>
    /\ UNCHANGED commVars
    /\ UNCHANGED taskVars

\* "/open example <name>": open_show with formatted=False; every exception is
\* caught by the command handler.
OpenExample(attrs, sts, all_cues) ==
    /\ running
    /\ LET r == FormatDataM(Data, attrs, sts, all_cues, FALSE)
       IN  /\ Store(r.d)
           /\ hist' = [Record("open_example", 0, r) EXCEPT !.sheet = all_cues]
    /\ UNCHANGED <<clock, running>>
    /\ UNCHANGED commVars
    /\ UNCHANGED taskVars

\* "/open saved <name>": open_show with formatted=True.
OpenSaved(attrs, sts, all_cues) ==
    /\ running
    /\ LET r == FormatDataM(Data, attrs, sts, all_cues, TRUE)
       IN  /\ Store(r.d)
           /\ hist' = [Record("open_saved", 0, r) EXCEPT !.sheet = all_cues]
    /\ UNCHANGED <<clock, running>>
    /\ UNCHANGED commVars
    /\ UNCHANGED taskVars

\* "/open saved <name>" or "/open example <name>" of a folder in which a file
\* is missing; the attributes file, when found, holds attrs, and the files
\* found beside it hold the templates.
OpenMissing(found, attrs, formatted) ==
    /\ running
    /\ found \subseteq ShowFiles
    /\ found # ShowFiles
    /\ LET r == OpenShowM(Data, found, attrs, TemplateStates, TemplateAllCues,
                          formatted,
                          IF formatted THEN "show was not found"
                          ELSE "example show was not found")
       IN  /\ Store(r.d)
           /\ hist' = Record("open_show", 0, r)
    /\ UNCHANGED <<clock, running>>
    /\ UNCHANGED commVars
    /\ UNCHANGED taskVars

\* "/reset": reset_data, the three templates as a formatted show.
ResetData ==
    /\ running
    /\ LET r == FormatDataM(Data, TemplateAttributes, TemplateStates,
                            TemplateAllCues, TRUE)
       IN  /\ Store(r.d)
           /\ hist' = Record("reset_data", 0, r)
    /\ UNCHANGED <<clock, running>>
    /\ UNCHANGED commVars
    /\ UNCHANGED taskVars

\* What Server.__command_line_input gives __set_command_line_text ("" when
\* it is not called) on a command that is neither "/goto cue" followed by
\* digits, nor "/save", "/list" or "/reset", nor "/open" of a show that
\* exists; no folder of Shows or Examples has the name "none".
CommandLineText(split_command) ==
    LET n == Len(split_command)
        slash == n > 0 /\ split_command[1] \in {"/goto", "/open", "/foo"}
    IN  IF ~slash THEN ""
        ELSE IF /\ n >= 2
                /\ split_command[1] = "/goto"
                /\ split_command[2] = "cue"
        THEN ""
        ELSE IF split_command[1] = "/open"
        THEN IF n = 1
             THEN "Format Error: the your command was invalidly formatted."
             ELSE IF split_command[2] = "saved"
             THEN "Input Error: show was not found"
             ELSE IF split_command[2] = "example"
             THEN "Input Error: example show was not found"
             ELSE ""
        ELSE ""

\* Server.__command_line_input on such a command: no method of the data
\* management is reached, every exception is caught, and the words of the
\* command and the text shown are recorded.
CommandLineInput(split_command) ==
    /\ running
    /\ hist' = [Record("command_line_input", 0, Ok(Data)) EXCEPT
                  !.detail = CommandLineText(split_command),
                  !.list = split_command]
    /\ UNCHANGED <<attributes, states, allCues, cueNum, cue_num_file, maxCueGroup,
                   currentCues, nodes, clock, running>>
    /\ UNCHANGED commVars
    /\ UNCHANGED taskVars

\* One round of Server.__get_node_series that decoded a list.
PollNodes(node_series_list, now) ==
    /\ running
    /\ now >= clock
    /\ LET d == FormatNodesM(Data, node_series_list, now)
       IN  Store(d)
    /\ clock' = now
    /\ hist' = [Record("format_nodes", 0, Ok(Data)) EXCEPT !.list = node_series_list]
    /\ UNCHANGED running
    /\ UNCHANGED commVars
    /\ UNCHANGED taskVars

\* One round of Server.__update_node_times.
UpdateNodeTimes(now) ==
    /\ running
    /\ now >= clock
    /\ Store(UpdateLastUpdated(Data, now))
    /\ clock' = now
    /\ hist' = Record("update_last_updated", 0, Ok(Data))
    /\ UNCHANGED running
    /\ UNCHANGED commVars
    /\ UNCHANGED taskVars

Next ==
    \/ PreviousCue
    \/ NextCue
    \/ \E n \in 0..MaxGoto : GotoCue(n)
    \/ \E sheet \in RawSheetsFor(attributes, states) : UpdateAllCues(sheet)
    \/ \E sheet \in AttributeSheets : UpdateAttributes(sheet)
    \/ \E sheet \in StateSheets \cup
            {[columns |-> {"State", "Initial Node State", "Final Node State"},
              rows |-> TemplateStates.rows]} :
          UpdateStates(sheet)
    \/ \E a \in AttributeSheets, s \in StateSheets, c \in ExampleCueSheets :
          OpenExample(a, s, c)
    \/ \E a \in AttributeSheets, s \in StateSheets, c \in SavedCueSheets :
          OpenSaved(a, s, c)
    \/ \E found \in SUBSET ShowFiles, a \in AttributeSheets,
          formatted \in BOOLEAN :
          OpenMissing(found, a, formatted)
    \/ ResetData
    \/ \E split_command \in
            {<<"/goto", "cue", "x">>, <<"/open">>,
             <<"/open", "saved", "none">>, <<"/foo">>} :
          CommandLineInput(split_command)
    \/ \E list \in NodeSeriesLists, now \in NowValues : PollNodes(list, now)
    \/ \E now \in NowValues : UpdateNodeTimes(now)

Spec == Init /\ [][Next]_vars

\* ------------------------------------------------- the staleness refresh alone
\* The timestamps the rows of the node table hold when the refresh runs (NaT:
\* no series taken yet), and the values pd.Timestamp.now() takes, in half
\* minutes.  A series carries the timestamp of the node that sent it, so it
\* can lie after the server's clock.
StaleTimestamps == {NaT, 0, 2, 4}
StaleNowValues == {2, 3, 10, 198, 199, 200, 300}

\* The node table of the initial state after series with these timestamps
\* were taken (NaT: none taken for that row).
NodesWithTimestamps(ts) ==
    [InitData.nodes EXCEPT !.rows =
        [i \in 1..Len(InitData.nodes.rows) |->
            IF ts[i] = NaT THEN InitData.nodes.rows[i]
            ELSE [InitData.nodes.rows[i] EXCEPT
                    !.nodeNumber = "1", !.nodeState = "Ready",
                    !.timestamp = ts[i]]]]

StalenessInit ==
    /\ attributes = InitData.attributes
    /\ states = InitData.states
    /\ allCues = InitData.allCues
    /\ cueNum = InitData.cueNum
    /\ cue_num_file = InitData.cueNum
    /\ maxCueGroup = InitData.maxCueGroup
    /\ currentCues = InitData.currentCues
    /\ \E ts \in [1..Len(InitData.nodes.rows) -> StaleTimestamps] :
          nodes = NodesWithTimestamps(ts)
    /\ clock = 0
    /\ running = TRUE
    /\ hist = [op |-> "init", arg |-> 0, res |-> "ok", detail |-> "",
               streak |-> 0, start |-> 0, sheet |-> NoSheet, list |-> <<>>]
    /\ CommInit
    /\ TaskInit(<<>>)

StalenessNext == \E now \in StaleNowValues : UpdateNodeTimes(now)

StalenessSpec == StalenessInit /\ [][StalenessNext]_vars

\* ------------------------------------------------ blank rows in a cue sheet
\* Raw cue sheets of at most MaxPaddedRows rows in which every row is a blank
\* row or one of two complete cues, neither written twice.
PaddedCueSheets ==
    {[columns |-> RawCuesColumns, rows |-> r] :
        r \in {q \in UNION {[1..n -> {BlankRow, RawCue(CueA1, "Standby"),
                                      RawCue(CueB1, "Go")}] :
                               n \in 0..MaxPaddedRows} :
                \A i, j \in 1..Len(q) :
                    (i # j /\ q[i] = q[j]) => q[i] = BlankRow}}

\* The operator supplies such a sheet in the All Cues tab.
PaddedNext == \E sheet \in PaddedCueSheets : UpdateAllCues(sheet)

PaddedSpec == Init /\ [][PaddedNext]_vars

\* ------------------------------------------------ the pointer's file alone
\* IntManager.__data_pickle('wb'): the value is dumped to the file; when open
\* raises OSError the file is left as it was, when dump raises it after open
\* has emptied the file a later load finds no value (0); in both cases the
\* except clause sets the value in memory to 0.
DataPickleWrite(data, file, outcome) ==
    IF outcome = "written" THEN [data |-> data, file |-> data]
    ELSE IF outcome = "emptied" THEN [data |-> 0, file |-> 0]
    ELSE [data |-> 0, file |-> file]

\* A method of IntManager that sets the value and writes it; the record of
\* the call keeps the value before it.
IntManagerSet(op, other, data, outcome) ==
    /\ LET pickled == DataPickleWrite(data, cue_num_file, outcome)
       IN  /\ cueNum' = pickled.data
           /\ cue_num_file' = pickled.file
    /\ hist' = [Record(op, other, Ok(Data)) EXCEPT
                  !.detail = outcome, !.start = cueNum]
    /\ UNCHANGED <<attributes, states, allCues, maxCueGroup, currentCues,
                   nodes, clock, running>>
    /\ UNCHANGED commVars
    /\ UNCHANGED taskVars

\* IntManager.update, __iadd__ and __isub__, with the numbers the server
\* gives them: a group number or the nan of an empty cue sequence for update,
\* 1 for the other two, which leave nan as it is.
IntManagerUpdate(data, outcome) ==
    /\ data \in Int
    /\ IntManagerSet("update", data, data, outcome)
IntManagerIAdd(other, outcome) ==
    /\ cueNum + other <= MaxGoto
    /\ IntManagerSet("__iadd__", other,
                     IF cueNum = NaNNum THEN NaNNum ELSE cueNum + other,
                     outcome)
IntManagerISub(other, outcome) ==
    /\ cueNum = NaNNum \/ cueNum - other >= 0
    /\ IntManagerSet("__isub__", other,
                     IF cueNum = NaNNum THEN NaNNum ELSE cueNum - other,
                     outcome)

\* IntManager.__init__: the value in memory is the one the file holds.
PointerInit ==
    /\ attributes = InitData.attributes
    /\ states = InitData.states
    /\ allCues = InitData.allCues
    /\ \E data \in {NaNNum} \cup 0..MaxGoto :
          /\ cueNum = data
          /\ cue_num_file = data
    /\ maxCueGroup = InitData.maxCueGroup
    /\ currentCues = InitData.currentCues
    /\ nodes = InitData.nodes
    /\ clock = 0
    /\ running = TRUE
    /\ hist = [op |-> "init", arg |-> 0, res |-> "ok", detail |-> "",
               streak |-> 0, start |-> 0, sheet |-> NoSheet, list |-> <<>>]
    /\ CommInit
    /\ TaskInit(<<>>)

PointerNext ==
    \E outcome \in {"written", "unopened", "emptied"} :
        \/ \E data \in {NaNNum} \cup 0..MaxGoto :
              IntManagerUpdate(data, outcome)
        \/ IntManagerIAdd(1, outcome)
        \/ IntManagerISub(1, outcome)

PointerSpec == PointerInit /\ [][PointerNext]_vars

\* ---------------------------------------------- the Communication object alone
\* The datatypes of Server.__datatype_dict used here: the server's heartbeat
\* and the nodes' series.
Online == 65
Node == 71

\* The texts sent: one without a byte the daemon writes behind a backslash,
\* one with a backslash before a byte that makes no escape with it, one with
\* a quote before a comma, one with a backslash before the letter n.
Texts ==
    {<<"a">>, <<Backslash, "s">>, <<Quote, ",">>, <<Backslash, "n">>}

\* What the nodes have published when the server asks for their series.
PublishedLists == UNION {[1..n -> Texts] : n \in 0..MaxRecords}

\* What __data_decode makes of what the daemon prints when it holds the
\* records made of the texts of a list.
Decodings ==
    {[published |-> published,
      decoded |-> DataDecode(AlfredOutput([k \in 1..Len(published) |->
                                              MessageEncode(published[k])]))] :
        published \in PublishedLists}
DecodedOf(published) ==
    (CHOOSE d \in Decodings : d.published = published).decoded

\* dict.update({key: value})
DictUpdate(dict, key, value) ==
    [k \in DOMAIN dict \cup {key} |-> IF k = key THEN value ELSE dict[k]]

\* Communication.send_message: the file is written and handed to the daemon,
\* whose answer is not waited for.
SendMessage(data, datatype) ==
    /\ sent_data_dict' = DictUpdate(sent_data_dict, datatype, data)
    /\ call' = [NoCall EXCEPT !.op = "send_message", !.datatype = datatype]
    /\ UNCHANGED received_data_dict
    /\ UNCHANGED dataVars
    /\ UNCHANGED taskVars

\* Communication.receive_data when the daemon holds, for the datatype, the
\* records the nodes made of these texts with send_message.  An exception of
\* __data_decode leaves receive_data before the dictionary is updated.
ReceiveData(datatype, singular, published) ==
    /\ LET decoded == DecodedOf(published)
       IN  IF decoded.raised = ""
           THEN /\ received_data_dict' =
                      DictUpdate(received_data_dict, datatype, decoded.data)
                /\ call' = [op |-> "receive_data", datatype |-> datatype,
                            singular |-> singular, published |-> published,
                            raised |-> "",
                            returned |-> Returned(decoded.data, singular)]
           ELSE /\ UNCHANGED received_data_dict
                /\ call' = [NoCall EXCEPT
                              !.op = "receive_data", !.datatype = datatype,
                              !.singular = singular, !.published = published,
                              !.raised = decoded.raised]
    /\ UNCHANGED sent_data_dict
    /\ UNCHANGED dataVars
    /\ UNCHANGED taskVars

CommNext ==
    \/ \E data \in Texts : SendMessage(data, Online)
    \/ \E singular \in BOOLEAN, published \in PublishedLists :
          ReceiveData(Node, singular, published)

CommSpec == Init /\ [][CommNext]_vars

\* -------------------------------------------------------- the orchestration
\* Server.__datatype_dict.
datatype_dict ==
    [Online |-> 65, Attributes |-> 68, CueToNode |-> 69, Current |-> 70,
     Node |-> 71]

\* An update that appends the traceback whatever the list holds.
ErrorStorageUpdateAlways(errs, trace) == Append(errs, trace)

\* ErrorStorage.update: the traceback is appended unless the list has it.
ErrorStorageUpdate(errs, trace) ==
    IF \E k \in 1..Len(errs) : errs[k] = trace THEN errs
    ELSE Append(errs, trace)

\* A task that could run only once __setup_tasks is done.
ScheduledAfterSetup(t) ==
    /\ tasks[t] \in {"ready", "sleeping"}
    /\ setup_tasks = "done"

\* A task that awaits nothing before its loop can run an iteration: it is
\* scheduled and has not run yet, or its sleep is over.
Scheduled(t) == tasks[t] \in {"ready", "sleeping"}

\* The loop of a task that awaits nothing before it.
AwaitedSetupNever(t) == tasks[t] \in {"ready", "sleeping"}

\* A task of BarrierTasks can run an iteration of its loop: it is scheduled
\* and await self.__setup_tasks returns, or its sleep is over.
AwaitedSetup(t) ==
    /\ tasks[t] \in {"ready", "sleeping"}
    /\ setup_tasks = "done"

\* The task ends an iteration in asyncio.sleep.
Sleeps(t) ==
    /\ tasks' = [tasks EXCEPT ![t] = "sleeping"]
    /\ UNCHANGED tasks_exception

\* An exception leaves the task: the gather sets the first exception of its
\* children on __tasks and leaves the other children running.
Raises(t, exception) ==
    /\ tasks' = [tasks EXCEPT ![t] = "raised"]
    /\ tasks_exception' =
          IF tasks_exception = "" THEN exception ELSE tasks_exception

\* Server.__setup_GUI: the window is made and shown, and what awaits
\* __setup_tasks is scheduled again.
SetupGUI ==
    /\ setup_tasks = "ready"
    /\ setup_tasks' = "done"
    /\ tasks' = [t \in TaskNames |->
                    IF tasks[t] = "waiting" THEN "ready" ELSE tasks[t]]
    /\ closed' = FALSE
    /\ UNCHANGED <<tasks_exception, errors, loop>>
    /\ UNCHANGED dataVars
    /\ UNCHANGED commVars

\* await self.__setup_tasks, reached before __setup_GUI has run.
AwaitSetup(t) ==
    /\ tasks[t] = "ready"
    /\ setup_tasks = "ready"
    /\ tasks' = [tasks EXCEPT ![t] = "waiting"]
    /\ UNCHANGED <<setup_tasks, tasks_exception, errors, closed, loop>>
    /\ UNCHANGED dataVars
    /\ UNCHANGED commVars

\* One round of Server.__uptodate_update, which awaits nothing before its
\* loop.
UptodateUpdate(now) ==
    /\ Scheduled("uptodate_update")
    /\ now >= clock
    /\ clock' = now
    /\ sent_data_dict' = DictUpdate(sent_data_dict, datatype_dict.Online, now)
    /\ call' = [NoCall EXCEPT !.op = "send_message",
                              !.datatype = datatype_dict.Online]
    /\ Sleeps("uptodate_update")
    /\ UNCHANGED <<attributes, states, allCues, cueNum, cue_num_file, maxCueGroup,
                   currentCues, nodes, running, hist>>
    /\ UNCHANGED <<received_data_dict, setup_tasks, errors, closed, loop>>

\* One round of Server.__send_attributes, __send_states or
\* __send_current_cues.
SendTable(t) ==
    /\ AwaitedSetup(t)
    /\ LET datatype == IF t = "send_attributes" THEN datatype_dict.Attributes
                       ELSE IF t = "send_states" THEN datatype_dict.CueToNode
                       ELSE datatype_dict.Current
           data == IF t = "send_attributes" THEN attributes
                   ELSE IF t = "send_states" THEN states
                   ELSE currentCues
       IN  /\ sent_data_dict' = DictUpdate(sent_data_dict, datatype, data)
           /\ call' = [NoCall EXCEPT !.op = "send_message",
                                     !.datatype = datatype]
    /\ Sleeps(t)
    /\ UNCHANGED <<received_data_dict, setup_tasks, errors, closed, loop>>
    /\ UNCHANGED dataVars

\* One round of Server.__get_node_series: receive_data, and format_nodes
\* when it returned a list.  An exception of receive_data leaves the task.
\* The texts of a response stand for the cell texts in the pickle of the
\* series a node published, which the daemon prints escaped as it prints any
\* text; the object unpickled from a record is the series of that node.
GetNodeSeries(published, now) ==
    /\ AwaitedSetup("get_node_series")
    /\ now >= clock
    /\ LET decoded == DecodedOf(published)
           SeriesOf(object) ==
               CHOOSE series \in NodeSeries :
                   series.nodeNumber = (IF object = <<"a">> THEN "1" ELSE "2")
           node_series_list ==
               [k \in 1..Len(decoded.data) |-> SeriesOf(decoded.data[k])]
       IN  IF decoded.raised # ""
           THEN /\ call' = [NoCall EXCEPT
                              !.op = "receive_data",
                              !.datatype = datatype_dict.Node,
                              !.published = published,
                              !.raised = decoded.raised]
                /\ Raises("get_node_series", decoded.raised)
                /\ UNCHANGED received_data_dict
                /\ UNCHANGED dataVars
           ELSE /\ received_data_dict' =
                      DictUpdate(received_data_dict, datatype_dict.Node,
                                 decoded.data)
                /\ call' = [op |-> "receive_data",
                            datatype |-> datatype_dict.Node,
                            singular |-> FALSE, published |-> published,
                            raised |-> "",
                            returned |-> Returned(decoded.data, FALSE)]
                /\ Sleeps("get_node_series")
                /\ IF Returned(decoded.data, FALSE).kind = "None"
                   THEN UNCHANGED dataVars
                   ELSE /\ Store(FormatNodesM(Data, node_series_list, now))
                        /\ clock' = now
                        /\ hist' = [Record("format_nodes", 0, Ok(Data))
                                      EXCEPT !.list = node_series_list]
                        /\ UNCHANGED running
    /\ UNCHANGED <<sent_data_dict, setup_tasks, errors, closed, loop>>

\* One round of Server.__update_node_times as a task.
UpdateNodeTimesTask(now) ==
    /\ AwaitedSetup("update_node_times")
    /\ now >= clock
    /\ Store(UpdateLastUpdated(Data, now))
    /\ clock' = now
    /\ hist' = Record("update_last_updated", 0, Ok(Data))
    /\ Sleeps("update_node_times")
    /\ UNCHANGED running
    /\ UNCHANGED <<setup_tasks, errors, closed, loop>>
    /\ UNCHANGED commVars

\* One round of Server.__run_GUI: the events are processed, among them the
\* closing of the window the operator confirmed; when the loop finds the
\* window closed its else clause raises Stop.
RunGUI(closing) ==
    /\ AwaitedSetup("run_GUI")
    /\ IF closed
       THEN /\ Raises("run_GUI", "Stop")
            /\ UNCHANGED closed
       ELSE /\ Sleeps("run_GUI")
            /\ closed' = closing
    /\ UNCHANGED <<setup_tasks, errors, loop>>
    /\ UNCHANGED dataVars
    /\ UNCHANGED commVars

\* Server.__cancel_tasks: the comprehension iterates over __tasks, which is
\* the future of the gather and not a list of tasks; iterating a future that
\* is done returns its result, that is, raises the exception set on it,
\* before any task is cancelled.
CancelTasks(ts, exception) == [tasks |-> ts, raised |-> exception]

\* A run_tasks that puts Stop in the error log like any other exception.
RunTasksLoggingStop ==
    /\ loop = "awaiting"
    /\ tasks_exception # ""
    /\ errors' = ErrorStorageUpdate(errors, tasks_exception)
    /\ loop' = "returned"
    /\ UNCHANGED <<tasks, setup_tasks, tasks_exception, closed>>
    /\ UNCHANGED dataVars
    /\ UNCHANGED commVars

\* Server.run_tasks once await self.__tasks raises: Stop has the tasks
\* cancelled, another exception is put in the error log, and what leaves
\* the handler leaves run_tasks.
RunTasks ==
    /\ loop = "awaiting"
    /\ tasks_exception # ""
    /\ IF tasks_exception = "Stop"
       THEN LET cancelling == CancelTasks(tasks, tasks_exception)
            IN  /\ tasks' = cancelling.tasks
                /\ loop' = IF cancelling.raised = "" THEN "returned"
                           ELSE "raised"
                /\ UNCHANGED errors
       ELSE /\ errors' = ErrorStorageUpdate(errors, tasks_exception)
            /\ loop' = "returned"
            /\ UNCHANGED tasks
    /\ UNCHANGED <<setup_tasks, tasks_exception, closed>>
    /\ UNCHANGED dataVars
    /\ UNCHANGED commVars

\* asyncio.run once run_tasks is over: every task that is not done is
\* cancelled and the loop is closed; an exception that left run_tasks then
\* leaves asyncio.run and main.
CloseLoop ==
    /\ loop \in {"returned", "raised"}
    /\ \E t \in TaskNames : tasks[t] \notin {"raised", "cancelled"}
    /\ tasks' = [t \in TaskNames |->
                    IF tasks[t] = "raised" THEN "raised" ELSE "cancelled"]
    /\ setup_tasks' = IF setup_tasks = "done" THEN "done" ELSE "cancelled"
    /\ UNCHANGED <<tasks_exception, errors, closed, loop>>
    /\ UNCHANGED dataVars
    /\ UNCHANGED commVars

\* The state when run_tasks awaits __tasks: the data of a first run, and in
\* errors.json nothing or the traceback of an earlier failure, one a task of
\* this run can raise again or another.
TasksInit ==
    /\ attributes = InitData.attributes
    /\ states = InitData.states
    /\ allCues = InitData.allCues
    /\ cueNum = InitData.cueNum
    /\ cue_num_file = InitData.cueNum
    /\ maxCueGroup = InitData.maxCueGroup
    /\ currentCues = InitData.currentCues
    /\ nodes = InitData.nodes
    /\ clock = 0
    /\ running = TRUE
    /\ hist = [op |-> "init", arg |-> 0, res |-> "ok", detail |-> "",
               streak |-> 0, start |-> 0, sheet |-> NoSheet, list |-> <<>>]
    /\ sent_data_dict = <<>>
    /\ received_data_dict = <<>>
    /\ call = NoCall
    /\ \E stored \in {<<>>, <<"UnboundLocalError">>, <<"OSError">>} :
          TaskInit(stored)

\* The daemon answers a poll with the record of at most one node.
TasksNext ==
    \/ SetupGUI
    \/ \E t \in BarrierTasks : AwaitSetup(t)
    \/ \E now \in NowValues : UptodateUpdate(now)
    \/ \E t \in {"send_attributes", "send_states", "send_current_cues"} :
          SendTable(t)
    \/ \E published \in {p \in PublishedLists : Len(p) <= 1},
          now \in NowValues :
          GetNodeSeries(published, now)
    \/ \E now \in NowValues : UpdateNodeTimesTask(now)
    \/ \E closing \in BOOLEAN : RunGUI(closing)
    \/ RunTasks
    \/ CloseLoop

TasksSpec == TasksInit /\ [][TasksNext]_vars

\* The event loop runs every callback that is ready: no step of run_tasks,
\* of asyncio.run or of the task that drains the events waits for ever.
TasksFairSpec ==
    /\ TasksSpec
    /\ WF_vars(SetupGUI)
    /\ WF_vars(\E closing \in BOOLEAN : RunGUI(closing))
    /\ WF_vars(RunTasks)
    /\ WF_vars(CloseLoop)

\* ------------------------------ the current cues broadcast among the handlers
\* The task that sends the snapshot, and the handlers that move the pointer
\* or replace the cue sequence, which the task that drains the events runs
\* between two rounds of it.
BroadcastNext ==
    \/ SetupGUI
    \/ SendTable("send_current_cues")
    \/ PreviousCue
    \/ NextCue
    \/ \E n \in 0..MaxGoto : GotoCue(n)
    \/ \E sheet \in RawSheetsFor(attributes, states) : UpdateAllCues(sheet)

BroadcastSpec == Init /\ [][BroadcastNext]_vars

\* ------------------------------------------------------------- properties
\* The cue numbers keying the node table, and those of the snapshot.
NodesKeys == {nodes.rows[i].cn : i \in 1..Len(nodes.rows)}
SnapshotKeys == {currentCues.rows[i].cn : i \in 1..Len(currentCues.rows)}

\* The handlers that replace the cue sequence, and those that compile a raw
\* sheet to do so.
ReplacingOps == {"format_all_cues", "open_example", "open_saved", "reset_data"}
CompilingOps == {"format_all_cues", "open_example"}

\* C1: in every state of the running server the pointer satisfies
\* 0 <= currentGroup <= maxGroup, maxGroup being the largest group number of
\* the stored cue sequence.
C1_PointerInRange ==
    running =>
        /\ maxCueGroup # NaNNum
        /\ maxCueGroup = MaxCueGroupOf(allCues)
        /\ 0 <= cueNum
        /\ cueNum <= maxCueGroup

\* C2: in every reachable state the cue numbers keying the node table are the
\* cue numbers of the current cue snapshot.
C2_NodeStatusKeys == NodesKeys = SnapshotKeys

\* C2 witness: a node report has been applied to a table of two cues.
C2_ReportApplied ==
    /\ hist.op = "format_nodes"
    /\ Len(nodes.rows) = 2
    /\ \E i \in 1..Len(nodes.rows) : nodes.rows[i].nodeNumber # NaN

\* C3: whenever another task may run (every state of the running server: no
\* handler yields between its first and its last assignment), the snapshot is
\* exactly the cues of the cue sequence whose group number is the pointer.
C3_SnapshotOfCurrentGroup ==
    running => currentCues.rows = CuesOfGroup(allCues, cueNum)

C5_WarpContract ==
    [][hist'.op = "warp_cue" =>
            IF 0 <= hist'.arg /\ maxCueGroup # NaNNum /\ hist'.arg <= maxCueGroup
            THEN /\ hist'.res = "True"
                 /\ cueNum' = hist'.arg
            ELSE /\ hist'.res = "False"
                 /\ cueNum' = cueNum
                 /\ currentCues' = currentCues
                 /\ nodes' = nodes]_vars

C8_NavigationResets ==
    (\/ hist.op \in {"previous_cue", "next_cue"}
     \/ (hist.op = "warp_cue" /\ hist.res = "True"))
        => /\ currentCues.rows = CuesOfGroup(allCues, cueNum)
           /\ nodes.rows = NodesShell(currentCues.rows)

\* C9: after every replacement of the cue sequence that was not rejected,
\* maxGroup is the largest group number of the new sequence, the pointer is 0,
\* and the snapshot and the node table are those of group 0 of the new
\* sequence.
C9_ReplacementResets ==
    (hist.op \in ReplacingOps /\ hist.res # "FormatError")
        => /\ maxCueGroup = MaxCueGroupOf(allCues)
           /\ maxCueGroup # NaNNum
           /\ cueNum = 0
           /\ currentCues.rows = CuesOfGroup(allCues, 0)
           /\ nodes.rows = NodesShell(currentCues.rows)

\* C10: the group numbers of a cue sequence compiled from a raw sheet that was
\* not rejected are exactly 0..maxGroup, so that every group the pointer can
\* name holds a cue.
C10_GroupsContiguous ==
    (hist.op \in CompilingOps /\ hist.res # "FormatError")
        => /\ maxCueGroup = MaxCueGroupOf(allCues)
           /\ GroupNumbers(allCues.rows) = 0..maxCueGroup

\* C11: a raw cue sheet with the raw column titles that holds a cue row whose
\* prefix (the cue number without digits and dots) is the prefix of no row, or
\* of several rows, of the attributes sheet is rejected with a FormatError for
\* the cue prefix.
C11_PrefixRejected ==
    (/\ hist.op = "format_all_cues"
     /\ CheckColumnsNames(hist.sheet, RawCuesColumns)
     /\ HasUnresolvedPrefix(hist.sheet, attributes))
        => /\ hist.res = "FormatError"
           /\ hist.detail = "cue prefix"

\* Whether a raw sheet holds a cue row with every cell filled whose cue state
\* is no cue state of the states sheet.
HasCompleteUnknownState(dataframe, sts) ==
    \E i \in 1..Len(dataframe.rows) :
        /\ dataframe.rows[i].cn # NaNCue
        /\ dataframe.rows[i].when # NaN
        /\ dataframe.rows[i].action # NaN
        /\ dataframe.rows[i].state # NaN
        /\ dataframe.rows[i].state \notin PossibleCueStates(sts)

\* C12: a cue sheet that passes the column and prefix checks is rejected with
\* a FormatError for the cue states when a cue row of it with every cell
\* filled has a cue state that is no key of the states sheet in force, be the
\* sheet raw (All Cues tab) or grouped (/open saved, once the show's
\* attributes and states sheets were taken).
C12_StateRejected ==
    /\ (/\ hist.op = "format_all_cues"
        /\ CheckColumnsNames(hist.sheet, RawCuesColumns)
        /\ ~HasUnresolvedPrefix(hist.sheet, attributes)
        /\ HasCompleteUnknownState(hist.sheet, states))
            => (hist.res = "FormatError" /\ hist.detail = "cue states")
    /\ (/\ hist.op = "open_saved"
        /\ CheckColumnsNames(hist.sheet, AllCuesColumns)
        /\ hist.detail # "column titles"
        /\ HasUnknownState(hist.sheet, states))
            => (hist.res = "FormatError" /\ hist.detail = "cue states")

\* C12 witness: /open saved rejected a grouped sheet for a cue state that the
\* show's states sheet does not hold.
C12_SavedSheetRejected ==
    /\ running
    /\ hist.op = "open_saved"
    /\ hist.res = "FormatError"
    /\ hist.detail = "cue states"
    /\ HasUnknownState(hist.sheet, states)

\* C12 as stated: every raw sheet in which some cue row's cue state is no key
\* of the states sheet is rejected with a FormatError for the cue states.
C12_AnyUnknownStateRejected ==
    (/\ hist.op = "format_all_cues"
     /\ CheckColumnsNames(hist.sheet, RawCuesColumns)
     /\ HasUnknownState(hist.sheet, states))
        => (hist.res = "FormatError" /\ hist.detail = "cue states")

\* C13: when a replacement of the cue sequence ends in a FormatError (wrong
\* column titles, unresolved prefix, unknown cue state), the stored cue
\* sequence, maxGroup, the pointer, the snapshot and the node table are what
\* they were before the call.
C13_RejectionChangesNothing ==
    [][(hist'.op \in ReplacingOps /\ hist'.res = "FormatError")
            => /\ allCues' = allCues
               /\ maxCueGroup' = maxCueGroup
               /\ cueNum' = cueNum
               /\ currentCues' = currentCues
               /\ nodes' = nodes]_vars

\* C13 witness: the All Cues tab rejected a sheet for its cue states while the
\* node table held a node's report.
C13_RejectedWithReports ==
    /\ running
    /\ hist.op = "format_all_cues"
    /\ hist.res = "FormatError"
    /\ hist.detail = "cue states"
    /\ \E i \in 1..Len(nodes.rows) : nodes.rows[i].nodeNumber # NaN

\* The rows of the stored attributes sheet whose prefix is the given one.
AttributesOfPrefix(prefix) ==
    LET same(r) == r.cuePrefix = prefix
    IN  SelectSeq(attributes.rows, same)

\* C14: in every state of the running server every cue of the stored cue
\* sequence has a prefix that is the prefix of exactly one row of the stored
\* attributes sheet.
C14_PrefixesResolve ==
    running =>
        \A i \in 1..Len(allCues.rows) :
            Len(AttributesOfPrefix(allCues.rows[i].prefix)) = 1

\* C15: in every state of the running server every cue of the stored cue
\* sequence has a cue state that is a key of the stored states sheet.
C15_StatesResolve ==
    running =>
        \A i \in 1..Len(allCues.rows) :
            allCues.rows[i].state \in PossibleCueStates(states)

\* The cue fields and the node fields of a row of the node table.
NodeFields(row) ==
    <<row.cn, row.when, row.action, row.state,
      row.nodeNumber, row.nodeState, row.timestamp>>

\* The cue numbers the series of a list name.
ReportedCues(node_series_list) ==
    {node_series_list[k].cn : k \in 1..Len(node_series_list)}

\* C16: format_nodes never adds a row to the node table, and a list whose
\* series all name cue numbers that are not keys of the table leaves the cue
\* fields and the node fields (node number, node state, timestamp) of every
\* row as they were.
C16_ForeignReportsDropped ==
    [][hist'.op = "format_nodes" =>
        /\ Len(nodes'.rows) = Len(nodes.rows)
        /\ \A i \in 1..Len(nodes.rows) : nodes'.rows[i].cn = nodes.rows[i].cn
        /\ ReportedCues(hist'.list) \cap NodesKeys = {} =>
              \A i \in 1..Len(nodes.rows) :
                  NodeFields(nodes'.rows[i]) = NodeFields(nodes.rows[i])]_vars

\* C16 witness: a list naming no key of the table has been applied to a
\* table in which a row holds a series.
C16_OnlyForeignReports ==
    /\ hist.op = "format_nodes"
    /\ ReportedCues(hist.list) \cap NodesKeys = {}
    /\ \E i \in 1..Len(nodes.rows) : nodes.rows[i].nodeNumber # NaN

\* The last series of a list that names a cue number.
LastReportOf(node_series_list, cueNumber) ==
    LET k == CHOOSE j \in 1..Len(node_series_list) :
                /\ node_series_list[j].cn = cueNumber
                /\ \A l \in (j + 1)..Len(node_series_list) :
                      node_series_list[l].cn # cueNumber
    IN  node_series_list[k]

\* C17: after format_nodes, the node number, node state and timestamp of a
\* row whose cue number is named in the list are those of the last series of
\* the list naming it, and a row named by no series keeps its cue fields and
\* node fields (its last-updated text is computed anew).
C17_LastReportApplied ==
    [][hist'.op = "format_nodes" =>
        \A i \in 1..Len(nodes.rows) :
            IF nodes.rows[i].cn \in ReportedCues(hist'.list)
            THEN LET series == LastReportOf(hist'.list, nodes.rows[i].cn)
                 IN  /\ nodes'.rows[i].nodeNumber = series.nodeNumber
                     /\ nodes'.rows[i].nodeState = series.nodeState
                     /\ nodes'.rows[i].timestamp = series.timestamp
            ELSE NodeFields(nodes'.rows[i]) = NodeFields(nodes.rows[i])]_vars

\* C17 witness: after a poll, one row of a two-row table holds a series and
\* the other holds none.
C17_OneRowReported ==
    /\ hist.op = "format_nodes"
    /\ Len(nodes.rows) = 2
    /\ \E i, j \in 1..2 :
          /\ nodes.rows[i].nodeNumber # NaN
          /\ nodes.rows[j].nodeNumber = NaN

\* C17 as stated: every series of the list naming a key has its node number,
\* node state and timestamp in that row afterwards, and a row named by no
\* series is unchanged.
C17_EveryReportApplied ==
    [][hist'.op = "format_nodes" =>
        /\ \A k \in 1..Len(hist'.list), i \in 1..Len(nodes.rows) :
              nodes.rows[i].cn = hist'.list[k].cn =>
                  /\ nodes'.rows[i].nodeNumber = hist'.list[k].nodeNumber
                  /\ nodes'.rows[i].nodeState = hist'.list[k].nodeState
                  /\ nodes'.rows[i].timestamp = hist'.list[k].timestamp
        /\ \A i \in 1..Len(nodes.rows) :
              nodes.rows[i].cn \notin ReportedCues(hist'.list) =>
                  nodes'.rows[i] = nodes.rows[i]]_vars

\* The whole number nearest to a number of half minutes counted in minutes,
\* the even one of the two when both are as near.
NearestMinutes(halfMinutes) ==
    CHOOSE n \in -5..200 :
        /\ 2 * n - halfMinutes \in {-1, 0, 1}
        /\ 2 * n # halfMinutes => n % 2 = 0

\* The text update_last_updated is to show for n minutes.
MinutesText(n) == IF n <= 99 THEN ToString(n) \o " min" ELSE ">99 min"

\* C18: update_last_updated sets the last-updated text of each row from the
\* minutes n between the row's timestamp and now, rounded to the nearest whole
\* number (a half to the even one): "{n} min" when n <= 99, ">99 min" when
\* n > 99, and blank (nan) for a row without a timestamp; 5 minutes give
\* "5 min" and 150 minutes give ">99 min".
C18_StalenessRounded ==
    [][hist'.op = "update_last_updated" =>
        /\ Len(nodes'.rows) = Len(nodes.rows)
        /\ \A i \in 1..Len(nodes.rows) :
              LET timestamp == nodes.rows[i].timestamp
                  shown == nodes'.rows[i].lastUpdated
              IN  /\ NodeFields(nodes'.rows[i]) = NodeFields(nodes.rows[i])
                  /\ timestamp = NaT => shown = NaN
                  /\ timestamp # NaT =>
                        shown = MinutesText(NearestMinutes(clock' - timestamp))
                  /\ (timestamp # NaT /\ clock' - timestamp = 10) =>
                        shown = "5 min"
                  /\ (timestamp # NaT /\ clock' - timestamp = 300) =>
                        shown = ">99 min"]_vars

\* C18 witness: after a refresh one row shows ">99 min" and another, without
\* a timestamp, shows nothing.
C18_StaleAndBlank ==
    /\ hist.op = "update_last_updated"
    /\ \E i, j \in 1..Len(nodes.rows) :
          /\ nodes.rows[i].timestamp # NaT
          /\ nodes.rows[i].lastUpdated = ">99 min"
          /\ nodes.rows[j].timestamp = NaT
          /\ nodes.rows[j].lastUpdated = NaN

\* C18 as stated: n is the number of whole minutes elapsed since the row's
\* timestamp.
C18_WholeMinutesElapsed ==
    [][hist'.op = "update_last_updated" =>
        \A i \in 1..Len(nodes.rows) :
            LET timestamp == nodes.rows[i].timestamp
                shown == nodes'.rows[i].lastUpdated
            IN  /\ timestamp = NaT => shown = NaN
                /\ timestamp # NaT =>
                      shown = MinutesText((clock' - timestamp) \div 2)]_vars

\* The list __data_decode made in the last receive_data.
Decoded == DecodedOf(call.published).data

\* C19: receive_data returns None when no record decodes, the decoded object
\* itself when exactly one record decodes and singular is true, and in every
\* other case (one record and singular false, or more records than one) the
\* whole list of decoded objects.
C19_ReceiveReturns ==
    (call.op = "receive_data" /\ call.raised = "") =>
        /\ received_data_dict[call.datatype] = Decoded
        /\ Len(Decoded) = 0 => call.returned.kind = "None"
        /\ (Len(Decoded) = 1 /\ call.singular) =>
              /\ call.returned.kind = "object"
              /\ call.returned.value = Decoded[1]
        /\ (Len(Decoded) > 1 \/ (Len(Decoded) = 1 /\ ~call.singular)) =>
              /\ call.returned.kind = "list"
              /\ call.returned.value = Decoded

\* C19 witness: receive_data was called with singular true, exactly one
\* record decoded, and the object was returned.
C19_OneObjectReturned ==
    /\ call.op = "receive_data"
    /\ call.raised = ""
    /\ call.singular
    /\ Len(Decoded) = 1
    /\ call.returned.kind = "object"

\* C20: when the daemon holds exactly one record, made by __message_encode
\* of a value, __data_decode of what the daemon prints is the list of that
\* one value.
C20_RoundTrip ==
    (call.op = "receive_data" /\ Len(call.published) = 1) =>
        /\ call.raised = ""
        /\ received_data_dict[call.datatype] = call.published

\* C21: __data_decode never raises: whatever the daemon prints, receive_data
\* gets a list back (an empty one when no record deserializes) and raises
\* nothing itself.
C21_DecodeNeverRaises ==
    call.op = "receive_data" =>
        /\ call.raised = ""
        /\ call.returned.kind = "None" <=> Len(Decoded) = 0

\* A step of the poll task in which receive_data was called.
PollStep ==
    /\ call'.op = "receive_data"
    /\ tasks'["get_node_series"] \in {"sleeping", "raised"}
    /\ call' # call \/ tasks["get_node_series"] = "ready"

\* C22: a poll whose transport failed (the daemon printed nothing, or what it
\* printed does not decode) is a poll without data: receive_data returns
\* None, the node table is left as it was, the poll task raises nothing, the
\* orchestration keeps running, and the task is left able to poll again.
C22_FailedPollIsNoData ==
    [][(/\ PollStep
        /\ \/ DecodedOf(call'.published).raised # ""
           \/ Len(DecodedOf(call'.published).data) = 0) =>
            /\ call'.raised = ""
            /\ call'.returned.kind = "None"
            /\ nodes' = nodes
            /\ tasks'["get_node_series"] = "sleeping"
            /\ tasks_exception' = tasks_exception
            /\ loop' = loop
            /\ AwaitedSetup("get_node_series")']_vars

\* C23: a task other than the heartbeat runs the first iteration of its loop
\* only when __setup_GUI has completed, and __setup_tasks completes at most
\* once: it becomes done only from not having run, and once done stays done.
C23_SetupBarrier ==
    [][/\ \A t \in BarrierTasks :
             (tasks[t] \in {"ready", "waiting"} /\
              tasks'[t] \in {"sleeping", "raised"}) =>
                 (setup_tasks = "done" /\ setup_tasks' = "done")
       /\ setup_tasks = "done" => setup_tasks' = "done"
       /\ (setup_tasks # "done" /\ setup_tasks' = "done") =>
             setup_tasks = "ready"]_vars

\* C23 witness: the heartbeat has run and every other task has reached its
\* await while __setup_GUI has not run yet.
C23_AllWaitAtBarrier ==
    /\ setup_tasks = "ready"
    /\ tasks["uptodate_update"] = "sleeping"
    /\ \A t \in BarrierTasks : tasks[t] = "waiting"

\* C24: once the window is closed, the task that drains the events raises
\* Stop, run_tasks cancels every task still running and ends normally:
\* eventually no task is running and Stop has not left run_tasks.
C24_CloseStopsCleanly ==
    closed ~> (/\ loop = "returned"
               /\ \A t \in TaskNames : tasks[t] \in {"raised", "cancelled"})

\* The command the last handler took was invalid: a "/goto cue" whose number
\* warp_cue refused, or a slash command that is none of the commands.
InvalidCommand ==
    \/ hist.op = "warp_cue" /\ hist.res = "False"
    \/ hist.op = "command_line_input"

\* The text the last handler gave the command line.
CommandLineShows ==
    IF hist.op = "warp_cue" /\ hist.res = "False"
    THEN "Input Error: invalid cue group number"
    ELSE IF hist.op = "command_line_input" THEN hist.detail
    ELSE ""

\* C26: an invalid command (a /goto cue with a number out of range or with
\* no number, an /open of a show that does not exist, an /open with no second
\* word, an unknown slash command) is answered with a text on the command
\* line, raises nothing out of the handler, and leaves the attribute table,
\* the state table, the cue sequence and the pointer as they were.
C26_InvalidCommandAnswered ==
    [][InvalidCommand' =>
          /\ CommandLineShows' # ""
          /\ running'
          /\ attributes' = attributes
          /\ states' = states
          /\ allCues' = allCues
          /\ cueNum' = cueNum]_vars

\* C27: after every operation that changes the pointer, the pointer the file
\* holds is the pointer in memory.
C27_PointerPersisted == cue_num_file = cueNum

\* C28: blank rows before the first cue, after the last cue and in runs do
\* not disturb the grouping.  When a raw sheet of blank rows and complete
\* cues, with a cue in it, is compiled, the stored sequence is the cues of
\* the sheet in their order; the first is in group 0, a cue is in the group
\* of the cue before it when no blank row lies between them and in the next
\* group when one or more do, and the maximum group is the group of the last
\* cue.
C28_BlankRunsCountOnce ==
    LET rows == hist.sheet.rows
        cues == SelectSeq(rows, LAMBDA r : r # BlankRow)
        place(k) == CHOOSE i \in 1..Len(rows) :
                        /\ rows[i] = cues[k]
                        /\ Len(SelectSeq(SubSeq(rows, 1, i),
                                         LAMBDA r : r # BlankRow)) = k
        stored == allCues.rows
    IN  (/\ hist.op = "format_all_cues"
         /\ hist.sheet \in PaddedCueSheets
         /\ cues # <<>>) =>
            /\ hist.res = "ok"
            /\ Len(stored) = Len(cues)
            /\ \A k \in 1..Len(cues) : stored[k].cn = cues[k].cn
            /\ stored[1].group = 0
            /\ \A k \in 2..Len(cues) :
                  stored[k].group =
                      stored[k-1].group +
                      (IF place(k) = place(k-1) + 1 THEN 0 ELSE 1)
            /\ maxCueGroup = stored[Len(stored)].group

\* C28 witness: a sheet was compiled that begins with a blank row, has two
\* blank rows between its two cues and ends with two blank rows; the cues
\* are in groups 0 and 1.
C28_PaddedSheetCompiled ==
    /\ hist.op = "format_all_cues"
    /\ hist.res = "ok"
    /\ hist.sheet.rows = <<BlankRow, RawCue(CueA1, "Standby"), BlankRow,
                           BlankRow, RawCue(CueB1, "Go"), BlankRow, BlankRow>>
    /\ Len(allCues.rows) = 2
    /\ allCues.rows[2].group = 1
    /\ maxCueGroup = 1

\* C29: format_attributes, format_states and format_all_cues accept a sheet
\* only when its column titles, the index among them, are exactly the
\* expected ones; any other sheet is refused with a FormatError about the
\* column titles and the stored sheet is left as it was.
C29_TitlesChecked ==
    [][/\ hist'.op = "format_attributes" =>
             /\ hist'.res = "ok" => attributes'.columns = AttributesColumns
             /\ hist'.res # "ok" =>
                   /\ hist'.res = "FormatError"
                   /\ hist'.detail = "column titles"
                   /\ attributes' = attributes
       /\ hist'.op = "format_states" =>
             /\ hist'.res = "ok" => states'.columns = StatesColumns
             /\ hist'.res # "ok" =>
                   /\ hist'.res = "FormatError"
                   /\ hist'.detail = "column titles"
                   /\ states' = states
       /\ (\/ /\ hist'.op \in {"format_all_cues", "open_example"}
              /\ hist'.sheet.columns # RawCuesColumns
           \/ /\ hist'.op = "open_saved"
              /\ hist'.sheet.columns # AllCuesColumns) =>
             /\ hist'.res = "FormatError"
             /\ hist'.detail = "column titles"
             /\ allCues' = allCues]_vars

\* C30: when format_all_cues ends in a FormatError the sheet the operator
\* supplied is not stored: the stored cue sequence is the one stored before,
\* in its compiled form.  (Nothing raises FormatCheckWarning, so there is no
\* warning outcome.)
C30_RejectedSheetNotStored ==
    [][(/\ hist'.op \in {"format_all_cues", "open_example", "open_saved"}
        /\ hist'.res \in {"FormatError", "FormatWarning"}) =>
            /\ allCues' = allCues
            /\ allCues'.columns = AllCuesColumns]_vars

\* C30 witness: the All Cues tab refused a sheet that holds a row, and the
\* stored sequence is another table than that sheet.
C30_RefusedSheetKept ==
    /\ hist.op = "format_all_cues"
    /\ hist.res = "FormatError"
    /\ hist.sheet.rows # <<>>
    /\ allCues.rows # <<>>
    /\ allCues # hist.sheet

\* C30 as stated: on a fatal or warning outcome the sheet supplied is stored
\* as it was given.
C30_RawTablePersisted ==
    [][(/\ hist'.op \in {"format_all_cues", "open_example", "open_saved"}
        /\ hist'.res \in {"FormatError", "FormatWarning"}) =>
            allCues' = hist'.sheet]_vars

\* C25: a task that has raised is never run again, and once a task has raised
\* an error other than Stop (in the model the poll task, whose receive_data
\* raised) the error comes to be in the error log and the orchestration
\* ends: run_tasks is over and no task is running.
C25_ErrorLoggedAndStopped ==
    /\ [][\A t \in TaskNames : tasks[t] = "raised" => tasks'[t] = "raised"]_vars
    /\ (tasks["get_node_series"] = "raised") ~>
          (/\ loop # "awaiting"
           /\ \E k \in 1..Len(errors) :
                 errors[k] \in {"UnboundLocalError", "ValueError"}
           /\ \A t \in TaskNames : tasks[t] \in {"raised", "cancelled"})

\* C31: __data_decode deserializes each record of what the daemon prints on
\* its own: when the daemon holds several records, the list receive_data
\* stores is the records that deserialize alone, in their order, and a record
\* that fails is the only one dropped.
C31_RecordsIndependent ==
    (call.op = "receive_data" /\ Len(call.published) >= 2) =>
        LET alone[k \in 0..Len(call.published)] ==
                IF k = 0 THEN <<>>
                ELSE alone[k - 1] \o DecodedOf(<<call.published[k]>>).data
        IN  /\ call.raised = ""
            /\ received_data_dict[call.datatype] = alone[Len(call.published)]

\* C32: the heartbeat does not wait for the setup: it is never suspended at
\* the barrier and no exception leaves it, and from the moment run_tasks
\* awaits its tasks until the heartbeat is cancelled, which happens only once
\* run_tasks is over, a broadcast of the heartbeat is enabled, be the setup
\* done or not.
C32_HeartbeatIndependent ==
    /\ tasks["uptodate_update"] \in {"ready", "sleeping", "cancelled"}
    /\ tasks["uptodate_update"] = "cancelled" => loop # "awaiting"
    /\ tasks["uptodate_update"] # "cancelled" =>
          ENABLED (\E now \in NowValues : UptodateUpdate(now))

\* C32 witness: the heartbeat was broadcast while the setup had not run and
\* another task was waiting for it.
C32_BroadcastBeforeSetup ==
    /\ setup_tasks = "ready"
    /\ tasks["uptodate_update"] = "sleeping"
    /\ call.op = "send_message"
    /\ call.datatype = datatype_dict.Online
    /\ datatype_dict.Online \in DOMAIN sent_data_dict
    /\ \E t \in BarrierTasks : tasks[t] = "waiting"

\* C33: the error log never holds a traceback twice; when run_tasks records
\* the exception of its tasks, a traceback the log holds leaves the log as it
\* is and a new one is appended as its last entry; and no step removes or
\* reorders the entries the log has.
C33_LogDeduplicated ==
    /\ [](\A i, j \in 1..Len(errors) : errors[i] = errors[j] => i = j)
    /\ [][/\ Len(errors') >= Len(errors)
          /\ SubSeq(errors', 1, Len(errors)) = errors
          /\ (loop = "awaiting" /\ loop' = "returned") =>
                IF \E k \in 1..Len(errors) : errors[k] = tasks_exception
                THEN errors' = errors
                ELSE errors' = Append(errors, tasks_exception)
          /\ ~(loop = "awaiting" /\ loop' = "returned") =>
                errors' = errors]_vars

\* C33 witness: run_tasks recorded a traceback the log did not hold behind
\* the one it held.
C33_NewTracebackAppended ==
    /\ loop = "returned"
    /\ tasks_exception = "UnboundLocalError"
    /\ errors = <<"OSError", "UnboundLocalError">>

\* C34: a run that Stop ends writes nothing to the error log: the log is
\* the same in every state of the run, from its start to after its end; a
\* run that another exception ends has that exception in the log once
\* run_tasks is over.
C34_StopNotLogged ==
    /\ [][tasks_exception' \in {"", "Stop"} => errors' = errors]_vars
    /\ []((loop # "awaiting" /\ tasks_exception # "Stop") =>
             \E k \in 1..Len(errors) : errors[k] = tasks_exception)

\* C34 witness: the window was closed, Stop ended the run, every task is
\* over, and the log holds the one traceback it held before the run.
C34_StoppedRunOver ==
    /\ closed
    /\ tasks_exception = "Stop"
    /\ loop # "awaiting"
    /\ \A t \in TaskNames : tasks[t] \in {"raised", "cancelled"}
    /\ errors = <<"OSError">>

\* C35: update_last_updated changes nothing but the last-updated text of the
\* rows of the node table (the column is added when the table has none): the
\* three sheets, the pointer, the snapshot, and each row's cue number, cue
\* fields, node number, node state and timestamp are as before; and
\* update_last_updated of the table it left, at the same clock value, is that
\* table again.
C35_RefreshIdempotent ==
    [][hist'.op = "update_last_updated" =>
        /\ UNCHANGED <<attributes, states, allCues, cueNum, cue_num_file,
                       maxCueGroup, currentCues>>
        /\ nodes'.columns = nodes.columns \cup {"Last Updated"}
        /\ Len(nodes'.rows) = Len(nodes.rows)
        /\ \A i \in 1..Len(nodes.rows) :
              [nodes'.rows[i] EXCEPT !.lastUpdated = nodes.rows[i].lastUpdated]
                  = nodes.rows[i]
        /\ UpdateLastUpdated([Data EXCEPT !.nodes = nodes'], clock').nodes
              = nodes']_vars

\* C35 witness: update_last_updated has run on a table with a row that holds
\* a node's series, and the row shows minutes and keeps the series.
C35_RefreshedReportedRow ==
    /\ hist.op = "update_last_updated"
    /\ "Last Updated" \in nodes.columns
    /\ \E i \in 1..Len(nodes.rows) :
          /\ nodes.rows[i].timestamp \notin {NaT, clock}
          /\ nodes.rows[i].nodeNumber = "1"
          /\ nodes.rows[i].lastUpdated \notin {NaN, "0 min"}

\* C36: open_show of a folder in which one of the three files, or more, is
\* missing raises InvalidCommandInput with the text that the show was not
\* found, and leaves the attributes, the states, the cue sequence and its
\* maxCueGroup, the pointer, the snapshot and the node table as they were.
C36_MissingFileChangesNothing ==
    [][hist'.op = "open_show" =>
        /\ hist'.res = "InvalidCommandInput"
        /\ hist'.detail \in {"show was not found", "example show was not found"}
        /\ UNCHANGED <<attributes, states, allCues, maxCueGroup, cueNum,
                       cue_num_file, currentCues, nodes>>]_vars

\* C36 witness: a show with a missing file was refused while the pointer was
\* off group 0, the node table held a node's series, and the attributes
\* stored were not the template.
C36_RefusedAwayFromStart ==
    /\ hist.op = "open_show"
    /\ hist.res = "InvalidCommandInput"
    /\ cueNum \notin {0, NaNNum}
    /\ attributes # TemplateAttributes
    /\ \E i \in 1..Len(nodes.rows) : nodes.rows[i].timestamp # NaT

\* C37: when /open saved or /open example ends in a FormatError for the cue
\* sheet of the show (an unresolved prefix or an unknown cue state), the
\* attributes and the states stored are those stored before the command, as
\* the cue sequence is.
C37_OpenAllOrNothing ==
    [][(/\ hist'.op \in {"open_example", "open_saved"}
        /\ hist'.res = "FormatError"
        /\ hist'.detail \in {"cue prefix", "cue states"}) =>
            /\ allCues' = allCues
            /\ attributes' = attributes
            /\ states' = states]_vars

\* C38: format_nodes leaves the When, Action and Cue State of every row of
\* the node table as they were, that is, as reset_nodes took them from the
\* snapshot: a series changes the node number, the node state and the
\* timestamp of its row and nothing else of it.
C38_ReportKeepsCueFields ==
    [][hist'.op = "format_nodes" =>
        /\ Len(nodes'.rows) = Len(nodes.rows)
        /\ \A i \in 1..Len(nodes.rows) :
              /\ nodes'.rows[i].cn = nodes.rows[i].cn
              /\ nodes'.rows[i].when = nodes.rows[i].when
              /\ nodes'.rows[i].action = nodes.rows[i].action
              /\ nodes'.rows[i].state = nodes.rows[i].state]_vars

\* C39: what a round of __send_current_cues publishes for the current cues
\* is the cues of the group the pointer names at that moment, whatever the
\* handlers did between the rounds.
C39_CurrentGroupPublished ==
    [][(/\ tasks'["send_current_cues"] = "sleeping"
        /\ \/ tasks["send_current_cues"] # "sleeping"
           \/ sent_data_dict' # sent_data_dict) =>
            /\ datatype_dict.Current \in DOMAIN sent_data_dict'
            /\ sent_data_dict'[datatype_dict.Current].rows
                  = CuesOfGroup(allCues, cueNum)]_vars

\* C40: format_attributes and format_states, whether they store the sheet
\* or refuse it, leave the cue sequence, maxCueGroup, the pointer, the
\* snapshot and the node table as they were, and each leaves the other's
\* sheet alone; a refused sheet leaves the stored sheet as it was too.
C40_SheetReplacementFrame ==
    [][/\ hist'.op \in {"format_attributes", "format_states"} =>
            /\ hist'.res \in {"ok", "FormatError"}
            /\ UNCHANGED <<allCues, maxCueGroup, cueNum, cue_num_file,
                           currentCues, nodes>>
            /\ hist'.res = "FormatError" => UNCHANGED <<attributes, states>>
       /\ hist'.op = "format_attributes" =>
            /\ states' = states
            /\ hist'.res = "ok" => attributes' \in AttributeSheets
       /\ hist'.op = "format_states" =>
            /\ attributes' = attributes
            /\ hist'.res = "ok" => states' \in StateSheets]_vars

\* C40 witness: an attributes sheet other than the template was stored while
\* the pointer was off group 0 and a row of the node table held a node's
\* series.
C40_AttributesReplacedMidShow ==
    /\ hist.op = "format_attributes"
    /\ hist.res = "ok"
    /\ attributes # TemplateAttributes
    /\ cueNum \notin {0, NaNNum}
    /\ \E i \in 1..Len(nodes.rows) : nodes.rows[i].timestamp # NaT

====
